---- MODULE Spec2Model ----
(***************************************************************************)
(* A model of the joie sentence search engine (kore-signet/joie):          *)
(* posting-list merge (engine/src/id_list.rs), the query language lexer    *)
(* and grammar (engine/src/query/parser.rs), the query algebra             *)
(* (engine/src/query/*.rs), the search facade (engine/src/searcher.rs) and *)
(* the builder (engine/src/builder.rs).                                    *)
(*                                                                         *)
(* A SentenceId is the pair <<doc, sentence>>; Rust's derived Ord on the   *)
(* struct is the lexicographic order on that pair.  Strings are sequences  *)
(* of one-character strings, so that the lexer can look at characters.     *)
(***************************************************************************)
EXTENDS Naturals, Integers, Sequences, FiniteSets, TLC

VARIABLES
    a, b, merged,          \* SentenceIdList::merge_slices: the two slices and the list returned
    input, parsed,         \* Database::parse_query: the query string and what the parser returned
    builder, added,        \* the DatabaseBuilder and the number of add_document calls made on it
    database,              \* the Database that build_in produced
    request, results,      \* the search request being served and the outcome of each query run for it
    map,                   \* the ImmutableMap that build_multi returned
    lookup,                \* the key last asked of ImmutableMap::get and what it returned
    corpus,                \* the documents that the indexing run adds, in order
    disk,                  \* the files of the database directories: path -> content
    loaded,                \* what Database::load returned
    handle,                \* the version that the ArcSwap<DatabaseHandle> points to
    held,                  \* for each reader, the version whose guard it holds (0: none)
    tempdirs,              \* the versions whose TempDir exists
    update,                \* the position of update_database and the version that it builds
    range_input,           \* collapse_overlapped_ranges: the list of ranges that it is given
    collapsed,             \* the lists that successive calls of collapse_overlapped_ranges returned
    id_list,               \* SentenceIdList::retain: the list, and the slots the parallel loop has not visited
    tasks,                 \* par_merge: the calls that rayon::join has started and that have not run yet
    writes                 \* par_merge: for each index of the output buffer, the calls that wrote it

vars == <<a, b, merged, input, parsed, builder, added, database, request, results, map, lookup, corpus, disk, loaded, handle, held, tempdirs, update, range_input, collapsed, id_list, tasks, writes>>

None == "None"

\* no ImmutableMap has been built, no key has been asked for
NoMap == [st |-> "None"]
NoLookup == [st |-> "None"]

\* Database::load has not been called
NoLoad == [st |-> "None"]
NoUpdate == [pc |-> "idle", version |-> 0]
NoList == [st |-> "None"]

----------------------------------------------------------------------------
(* Bounds of the model.                                                    *)

MaxMergeLen == 3

----------------------------------------------------------------------------
(* engine/src/sentence.rs: SentenceId                                      *)

SentenceId(doc, sentence) == <<doc, sentence>>

ZERO == SentenceId(0, 0)

is_valid(id) == id # ZERO

\* #[derive(PartialOrd, Ord)] on struct SentenceId { doc, sentence }
IdLess(x, y) == x[1] < y[1] \/ (x[1] = y[1] /\ x[2] < y[2])

IdLeq(x, y) == x = y \/ IdLess(x, y)

IsSortedIds(s) == \A i \in 1..(Len(s) - 1) : IdLeq(s[i], s[i + 1])

SeqsUpTo(S, n) == UNION {[1..k -> S] : k \in 0..n}

\* number of positions of s holding x
Count(s, x) == Cardinality({i \in 1..Len(s) : s[i] = x})

Range(s) == {s[i] : i \in 1..Len(s)}

----------------------------------------------------------------------------
(* engine/src/id_list.rs                                                   *)

\* SentenceIdListIter::next, run to the end: the ids the iterator yields
RECURSIVE IterIds(_)
IterIds(ids) ==
    IF ids = <<>> THEN <<>>
    ELSE IF Head(ids) # ZERO THEN <<Head(ids)>> \o IterIds(Tail(ids))
    ELSE IterIds(Tail(ids))

\* Vec::dedup: removes consecutive repeated elements
RECURSIVE Dedup(_)
Dedup(s) ==
    IF Len(s) <= 1 THEN s
    ELSE IF s[1] = s[2] THEN Dedup(Tail(s))
    ELSE <<s[1]>> \o Dedup(Tail(s))

\* slice::sort / par_sort / par_sort_unstable on SentenceIds (equal ids are
\* indistinguishable, so stability does not show): insertion sort
RECURSIVE InsertId(_, _)
InsertId(s, x) ==
    IF s = <<>> THEN <<x>>
    ELSE IF IdLess(x, Head(s)) THEN <<x>> \o s
    ELSE <<Head(s)>> \o InsertId(Tail(s), x)

RECURSIVE SortIds(_)
SortIds(s) == IF s = <<>> THEN <<>> ELSE InsertId(SortIds(Tail(s)), Head(s))

\* const PARALLEL_MERGE_THRESH: usize = 32768, scaled down so that lists of
\* the model's sizes take the pivot-splitting path as well as the scalar one.
PARALLEL_MERGE_THRESH == 2

RECURSIVE ScalarMergeFrom(_, _, _, _)
ScalarMergeFrom(x, y, i, j) ==
    IF i <= Len(x) /\ j <= Len(y)
    THEN IF IdLess(x[i], y[j])
         THEN <<x[i]>> \o ScalarMergeFrom(x, y, i + 1, j)
         ELSE <<y[j]>> \o ScalarMergeFrom(x, y, i, j + 1)
    ELSE SubSeq(x, i, Len(x)) \o SubSeq(y, j, Len(y))

scalar_merge(x, y) == ScalarMergeFrom(x, y, 1, 1)

\* slice::binary_search: the 0-based index Ok(x) | Err(x) that par_merge uses
\* as x either way.  With several equal elements Ok may name any of them.
binary_search(s, v) ==
    IF \E i \in 1..Len(s) : s[i] = v
    THEN {i - 1 : i \in {k \in 1..Len(s) : s[k] = v}}
    ELSE {Cardinality({k \in 1..Len(s) : IdLess(s[k], v)})}

\* par_merge writes the merge of x and y into an output slice of length
\* Len(x) + Len(y); the value is the set of outputs it can leave there.
RECURSIVE par_merge(_, _)
par_merge(x, y) ==
    LET big   == IF Len(x) >= Len(y) THEN x ELSE y
        small == IF Len(x) >= Len(y) THEN y ELSE x
    IN  IF Len(big) = 0 THEN {<<>>}
        ELSE IF Len(big) < PARALLEL_MERGE_THRESH THEN {scalar_merge(big, small)}
        ELSE LET pivot == Len(big) \div 2
                 mid   == big[pivot + 1]
             IN  UNION { { l \o <<mid>> \o r :
                             l \in par_merge(SubSeq(big, 1, pivot), SubSeq(small, 1, s)),
                             r \in par_merge(SubSeq(big, pivot + 2, Len(big)),
                                             SubSeq(small, s + 1, Len(small))) } :
                         s \in binary_search(small, mid) }

\* merge_slices with the de-duplication that id_list.rs lines 22-45 keep commented out
merge_slices_dedup(x, y) == {Dedup(m) : m \in par_merge(x, y)}

\* SentenceIdList::merge_slices
merge_slices(x, y) == par_merge(x, y)

----------------------------------------------------------------------------
(* engine/src/term_map.rs: tokenization.  Unicode word segmentation keeps  *)
(* the runs of letters; the English stemmer leaves words of one or two     *)
(* letters, the only ones the model writes in documents, as they are.      *)

Letters == {"a", "b", "c", "z", "A", "B", "C", "o", "r", "n", "d", "N", "D", "O", "R"}

IsWordChar(c) == c \in Letters

\* char::to_lowercase
LowerChar(c) ==
    CASE c = "A" -> "a" [] c = "B" -> "b" [] c = "C" -> "c" [] c = "N" -> "n"
      [] c = "D" -> "d" [] c = "O" -> "o" [] c = "R" -> "r" [] OTHER -> c

to_lowercase(w) == [i \in 1..Len(w) |-> LowerChar(w[i])]

\* Stemmer::create(Algorithm::English).stem: no suffix of the model's words is removed
stem(w) == w

\* the position after the run of word characters that starts at i
RECURSIVE WordEnd(_, _)
WordEnd(s, i) == IF i <= Len(s) /\ IsWordChar(s[i]) THEN WordEnd(s, i + 1) ELSE i

\* str::unicode_word_indices from position i: (byte offset, word) pairs,
\* offsets counted from 0
RECURSIVE WordIndicesFrom(_, _)
WordIndicesFrom(s, i) ==
    IF i > Len(s) THEN <<>>
    ELSE IF IsWordChar(s[i])
         THEN LET e == WordEnd(s, i)
              IN  <<[start |-> i - 1, word |-> SubSeq(s, i, e - 1)]>> \o WordIndicesFrom(s, e)
    ELSE WordIndicesFrom(s, i + 1)

unicode_word_indices(s) == WordIndicesFrom(s, 1)

\* str::lines from position i (line start); a final line needs no newline
RECURSIVE LineEnd(_, _)
LineEnd(s, i) == IF i <= Len(s) /\ s[i] # "\n" THEN LineEnd(s, i + 1) ELSE i

RECURSIVE LinesFrom(_, _)
LinesFrom(s, i) ==
    IF i > Len(s) THEN <<>>
    ELSE LET e == LineEnd(s, i)
         IN  <<SubSeq(s, i, e - 1)>> \o LinesFrom(s, e + 1)

lines(s) == LinesFrom(s, 1)

\* intern with the ids counted from 0
intern_FromZero(kv, term) ==
    LET l == Cardinality(DOMAIN kv)
        t == stem(term)
    IN  IF t \in DOMAIN kv THEN [kv |-> kv, id |-> kv[t]]
        ELSE [kv |-> (t :> l) @@ kv, id |-> l]

\* TermMap::intern: the id of the stem, a new one (len + 1) if it has none
intern(kv, term) ==
    LET l == Cardinality(DOMAIN kv) + 1
        t == stem(term)
    IN  IF t \in DOMAIN kv THEN [kv |-> kv, id |-> kv[t]]
        ELSE [kv |-> (t :> l) @@ kv, id |-> l]

\* the loop of TermMap::tokenize_sentence over words k..: the map and the terms
RECURSIVE InternWords(_, _, _)
InternWords(kv, words, k) ==
    IF k > Len(words) THEN [kv |-> kv, terms |-> <<>>]
    ELSE LET one  == intern(kv, to_lowercase(words[k].word))
             rest == InternWords(one.kv, words, k + 1)
         IN  [terms |-> <<one.id>> \o rest.terms, kv |-> rest.kv]

\* TermMap::tokenize_sentence: Token { start, end: start + word.len() }
tokenize_sentence(kv, s) ==
    LET words == unicode_word_indices(s)
        done  == InternWords(kv, words, 1)
    IN  [kv |-> done.kv,
         sentence |-> [text   |-> s,
                       tokens |-> [k \in 1..Len(words) |->
                                      [start |-> words[k].start,
                                       end   |-> words[k].start + Len(words[k].word)]],
                       terms  |-> done.terms]]

\* TermMap::tokenize_all: one sentence per line, in order
RECURSIVE TokenizeLines(_, _, _)
TokenizeLines(kv, ls, k) ==
    IF k > Len(ls) THEN [kv |-> kv, sentences |-> <<>>]
    ELSE LET one  == tokenize_sentence(kv, ls[k])
             rest == TokenizeLines(one.kv, ls, k + 1)
         IN  [sentences |-> <<one.sentence>> \o rest.sentences, kv |-> rest.kv]

tokenize_all(kv, doc) == TokenizeLines(kv, lines(doc), 1)

\* Sentence::terms_by_value: the token indices (from 0) of each term
terms_by_value(sentence) ==
    [t \in Range(sentence.terms) |-> {k - 1 : k \in {i \in 1..Len(sentence.terms) : sentence.terms[i] = t}}]

\* a term lookup that gives unknown words the id of the first term
term_UnknownAsFirst(kv, word) ==
    LET t == stem(to_lowercase(word)) IN IF t \in DOMAIN kv THEN kv[t] ELSE 1

\* FrozenTermMap::term and FrozenTermMap::tokenize_phrase: the frozen map
\* answers None for a stem that was not interned, and such words become 0
term(kv, word) ==
    LET t == stem(to_lowercase(word)) IN IF t \in DOMAIN kv THEN kv[t] ELSE 0

tokenize_phrase(kv, query) ==
    LET words == unicode_word_indices(query)
    IN  [k \in 1..Len(words) |-> term(kv, words[k].word)]

----------------------------------------------------------------------------
(* engine/src/builder.rs                                                   *)

EmptyMap == [x \in {} |-> 0]

DefaultMeta == 0

\* DatabaseBuilder::default()
NewBuilder ==
    [st |-> "Open", sentence_map |-> EmptyMap, term_to_sentence |-> EmptyMap,
     doc_metadata |-> EmptyMap, doc_storage |-> EmptyMap, term_map |-> EmptyMap]

\* the inner loop stopping one term early
RECURSIVE PushTerms_SkipsLast(_, _, _, _)
PushTerms_SkipsLast(t2s, terms, k, id) ==
    IF k >= Len(terms) THEN t2s
    ELSE LET t    == terms[k]
             list == IF t \in DOMAIN t2s THEN t2s[t] ELSE <<>>
         IN  PushTerms_SkipsLast((t :> Append(list, id)) @@ t2s, terms, k + 1, id)

\* the inner loop of add_document: one push per term occurrence
RECURSIVE PushTerms(_, _, _, _)
PushTerms(t2s, terms, k, id) ==
    IF k > Len(terms) THEN t2s
    ELSE LET t    == terms[k]
             list == IF t \in DOMAIN t2s THEN t2s[t] ELSE <<>>
         IN  PushTerms((t :> Append(list, id)) @@ t2s, terms, k + 1, id)

\* the loop of add_document without the assert
RECURSIVE AddSentences_NoAssert(_, _, _, _)
AddSentences_NoAssert(bld, doc_id, sentences, k) ==
    IF k > Len(sentences) THEN bld
    ELSE LET id == SentenceId(doc_id, k - 1)
         IN  AddSentences_NoAssert(
                    [bld EXCEPT !.term_to_sentence = PushTerms(@, sentences[k].terms, 1, id),
                                !.sentence_map = (id :> sentences[k]) @@ @],
                    doc_id, sentences, k + 1)

\* the outer loop of add_document over sentences k.. (sentence_idx = k - 1);
\* the assert fails on the SentenceId whose 64 bits are all zero
RECURSIVE AddSentences(_, _, _, _)
AddSentences(bld, doc_id, sentences, k) ==
    IF k > Len(sentences) THEN bld
    ELSE LET id == SentenceId(doc_id, k - 1)
         IN  IF id = ZERO THEN [st |-> "Panicked"]
             ELSE AddSentences(
                    [bld EXCEPT !.term_to_sentence = PushTerms(@, sentences[k].terms, 1, id),
                                !.sentence_map = (id :> sentences[k]) @@ @],
                    doc_id, sentences, k + 1)

\* DatabaseBuilder::add_document
add_document(bld, doc) ==
    LET toks  == tokenize_all(bld.term_map, doc.text)
        stored == AddSentences([bld EXCEPT !.term_map = toks.kv], doc.id, toks.sentences, 1)
    IN  IF stored.st = "Panicked" THEN stored
        ELSE [stored EXCEPT !.doc_storage = (doc.id :> doc.data) @@ @,
                           !.doc_metadata = (doc.id :> doc.metadata) @@ @]

MaxKey(f) == CHOOSE k \in DOMAIN f : \A j \in DOMAIN f : j <= k

\* build_in that sorts the posting lists and leaves the duplicates
build_in_NoDedup(bld) ==
    [st        |-> "Built",
     index     |-> [t \in DOMAIN bld.term_to_sentence |-> SortIds(bld.term_to_sentence[t])],
     sentences |-> bld.sentence_map,
     documents |-> bld.doc_storage,
     doc_meta  |-> [i \in 0..(IF DOMAIN bld.doc_metadata = {} THEN 0 ELSE MaxKey(bld.doc_metadata)) |->
                       IF i \in DOMAIN bld.doc_metadata THEN bld.doc_metadata[i] ELSE DefaultMeta],
     term_map  |-> bld.term_map]

\* DatabaseBuilder::build_in: posting lists sorted and de-duplicated, the
\* metadata array of length last doc id + 1 filled with defaults
build_in(bld) ==
    [st        |-> "Built",
     index     |-> [t \in DOMAIN bld.term_to_sentence |-> Dedup(SortIds(bld.term_to_sentence[t]))],
     sentences |-> bld.sentence_map,
     documents |-> bld.doc_storage,
     doc_meta  |-> [i \in 0..(IF DOMAIN bld.doc_metadata = {} THEN 0 ELSE MaxKey(bld.doc_metadata)) |->
                       IF i \in DOMAIN bld.doc_metadata THEN bld.doc_metadata[i] ELSE DefaultMeta],
     term_map  |-> bld.term_map]

----------------------------------------------------------------------------
(* engine/src/query: document filters, SentenceIdList::retain and the      *)
(* query types.                                                            *)

\* DocumentFilter for (): needed() is false and every document passes
UnitFilter == [needed |-> FALSE, accept |-> {0, 1}]

\* DocumentFilter for a closure: needed() is true; the model's closure
\* accepts the documents whose metadata is in `accept`
ClosureFilter(accept) == [needed |-> TRUE, accept |-> accept]

\* document_filter.filter_document(db.doc_meta.get_unchecked(id.doc))
filter_document(db, df, id) == db.doc_meta[id[1]] \in df.accept

\* SentenceIdList::retain: a valid slot that fails `keep` is zeroed in
\* place; the closure is given as the set of the ids that it accepts
retain(ids, keep) ==
    [i \in 1..Len(ids) |-> IF is_valid(ids[i]) /\ ids[i] \notin keep THEN ZERO ELSE ids[i]]

\* db.index.get(term).unwrap_or(&[])
Posting(db, t) == IF t \in DOMAIN db.index THEN db.index[t] ELSE <<>>

\* Vec::sort_by_key(|v| v.len()): a stable sort of the lists by length
RECURSIVE InsertByLen(_, _)
InsertByLen(sorted, l) ==
    IF sorted = <<>> THEN <<l>>
    ELSE IF Len(Head(sorted)) <= Len(l) THEN <<Head(sorted)>> \o InsertByLen(Tail(sorted), l)
    ELSE <<l>> \o sorted

RECURSIVE SortByLen(_)
SortByLen(lists) ==
    IF lists = <<>> THEN <<>>
    ELSE InsertByLen(SortByLen(SubSeq(lists, 1, Len(lists) - 1)), lists[Len(lists)])

PhraseQuery(phrase, df) == [kind |-> "Phrase", phrase |-> phrase, df |-> df]
KeywordsQuery(keywords, df) == [kind |-> "Keywords", keywords |-> keywords, df |-> df]
IntersectingQuery(queries, df) == [kind |-> "Intersecting", queries |-> queries, df |-> df]
IntersectingPhraseQuery(queries, df) == [kind |-> "IntersectingPhrase", queries |-> queries, df |-> df]
UnionQuery(queries) == [kind |-> "Union", queries |-> queries]

\* the outcome of find_sentence_ids: a list, or a panic
Ids(ids) == [ok |-> TRUE, ids |-> ids]
Panic == [ok |-> FALSE]

\* the retain loops over term_sets[k..] of the phrase queries
RECURSIVE RetainSets(_, _, _, _, _)
RetainSets(db, df, ids, term_sets, k) ==
    IF k > Len(term_sets) THEN ids
    ELSE RetainSets(db, df,
             retain(ids, {v \in Range(ids) : (df.needed => filter_document(db, df, v))
                                              /\ v \in Range(term_sets[k])}),
             term_sets, k + 1)

\* the match on DF::needed() shared by PhraseQuery and IntersectingPhraseQuery
PhraseIds(db, df, term_sets) ==
    IF Len(term_sets) > 1 THEN RetainSets(db, df, term_sets[1], term_sets, 2)
    ELSE IF df.needed
         THEN retain(term_sets[1], {id \in Range(term_sets[1]) : filter_document(db, df, id)})
    ELSE term_sets[1]

\* PhraseQuery::find_sentence_ids
PhraseFind(db, q) ==
    LET term_sets == SortByLen([k \in 1..Len(q.phrase) |-> Posting(db, q.phrase[k])])
    IN  IF term_sets = <<>> THEN Ids(<<>>) ELSE Ids(PhraseIds(db, q.df, term_sets))

\* the concatenation of a sequence of sequences
RECURSIVE Flatten(_)
Flatten(ss) == IF ss = <<>> THEN <<>> ELSE Head(ss) \o Flatten(Tail(ss))

\* IntersectingPhraseQuery::find_sentence_ids: term_sets[0] is read without
\* a check that there is a term
IntersectingPhraseFind(db, q) ==
    LET term_sets == SortByLen(Flatten([k \in 1..Len(q.queries) |->
                         [j \in 1..Len(q.queries[k].phrase) |-> Posting(db, q.queries[k].phrase[j])]]))
    IN  IF term_sets = <<>> THEN Panic ELSE Ids(PhraseIds(db, q.df, term_sets))

\* KeywordsQuery::find_sentence_ids; the posting lists are strictly
\* ascending, so the pivot searches of the merge have one answer
KeywordsFind(db, q, caller) ==
    LET two  == CHOOSE m \in merge_slices(Posting(db, q.keywords[1]), Posting(db, q.keywords[2])) : TRUE
        ids  == IF Len(q.keywords) = 2
                THEN (IF caller # "Intersection" THEN Dedup(two) ELSE two)
                ELSE Dedup(SortIds(Flatten([k \in 1..Len(q.keywords) |-> Posting(db, q.keywords[k])])))
    IN  Ids(IF q.df.needed
            THEN retain(ids, {id \in Range(ids) : filter_document(db, q.df, id)})
            ELSE ids)

\* the retain loop with the document filter as its only test
RECURSIVE IntersectSets_FilterOnly(_, _, _, _, _)
IntersectSets_FilterOnly(db, df, res, sets, k) ==
    IF k > Len(sets) THEN res
    ELSE IntersectSets_FilterOnly(db, df,
             retain(res, {v \in Range(res) : filter_document(db, df, v)}),
             sets, k + 1)

\* the retain loop of IntersectingQuery over sets[k..]
RECURSIVE IntersectSets(_, _, _, _, _)
IntersectSets(db, df, res, sets, k) ==
    IF k > Len(sets) THEN res
    ELSE IntersectSets(db, df,
             retain(res, {v \in Range(res) : v \in Range(sets[k]) /\ filter_document(db, df, v)}),
             sets, k + 1)

RECURSIVE find_sentence_ids(_, _, _)
\* IntersectingQuery::find_sentence_ids; swap_remove(0) panics on no sets
IntersectingFind(db, q) ==
    LET subs == [k \in 1..Len(q.queries) |-> find_sentence_ids(db, q.queries[k], "Intersection")]
        sets == SortByLen([k \in 1..Len(subs) |-> subs[k].ids])
    IN  IF \E k \in 1..Len(subs) : ~subs[k].ok THEN Panic
        ELSE IF sets = <<>> THEN Panic
        ELSE IF Len(sets) > 1 THEN Ids(IntersectSets(db, q.df, SortIds(sets[1]), sets, 2))
        ELSE Ids(sets[1])

\* UnionQuery::find_sentence_ids without its par_sort: the sub-queries' ids
\* in the order of the sub-queries
UnionFind_NoSort(db, q) ==
    LET subs == [k \in 1..Len(q.queries) |-> find_sentence_ids(db, q.queries[k], "Union")]
    IN  IF \E k \in 1..Len(subs) : ~subs[k].ok THEN Panic
        ELSE Ids(Dedup(Flatten([k \in 1..Len(subs) |-> IterIds(subs[k].ids)])))

\* UnionQuery::find_sentence_ids without the filter(SentenceId::is_valid)
UnionFind_KeepTombstones(db, q) ==
    LET subs == [k \in 1..Len(q.queries) |-> find_sentence_ids(db, q.queries[k], "Union")]
    IN  IF \E k \in 1..Len(subs) : ~subs[k].ok THEN Panic
        ELSE Ids(Dedup(SortIds(Flatten([k \in 1..Len(subs) |-> subs[k].ids]))))

\* UnionQuery::find_sentence_ids
UnionFind(db, q) ==
    LET subs == [k \in 1..Len(q.queries) |-> find_sentence_ids(db, q.queries[k], "Union")]
    IN  IF \E k \in 1..Len(subs) : ~subs[k].ok THEN Panic
        ELSE Ids(Dedup(SortIds(Flatten([k \in 1..Len(subs) |-> IterIds(subs[k].ids)]))))

\* Query::find_sentence_ids, dispatched on the query type
find_sentence_ids(db, q, caller) ==
    CASE q.kind = "Phrase"             -> PhraseFind(db, q)
      [] q.kind = "Keywords"           -> KeywordsFind(db, q, caller)
      [] q.kind = "Intersecting"       -> IntersectingFind(db, q)
      [] q.kind = "IntersectingPhrase" -> IntersectingPhraseFind(db, q)
      [] q.kind = "Union"              -> UnionFind(db, q)

----------------------------------------------------------------------------
(* engine/src/highlight.rs and the filter_map of each query type           *)

SentenceRange(start, end) == [start |-> start, end |-> end]

Max(x, y) == IF x >= y THEN x ELSE y

\* the loop of collapse_overlapped_ranges: it runs over `ranges` from its
\* first element, which is also the initial `current`
RECURSIVE CollapseLoop(_, _, _, _)
CollapseLoop(ranges, k, current, result) ==
    IF k > Len(ranges) THEN Append(result, current)
    ELSE IF current.end > ranges[k].start
         THEN CollapseLoop(ranges, k + 1,
                           SentenceRange(current.start, Max(current.end, ranges[k].end)), result)
    ELSE CollapseLoop(ranges, k + 1, ranges[k], Append(result, current))

collapse_overlapped_ranges(ranges) ==
    IF ranges = <<>> THEN <<>> ELSE CollapseLoop(ranges, 1, ranges[1], <<>>)

\* par_sort_by_key(|v| v.start): a stable sort of the ranges by start
RECURSIVE InsertByStart(_, _)
InsertByStart(sorted, r) ==
    IF sorted = <<>> THEN <<r>>
    ELSE IF Head(sorted).start <= r.start THEN <<Head(sorted)>> \o InsertByStart(Tail(sorted), r)
    ELSE <<r>> \o sorted

RECURSIVE SortByStart(_)
SortByStart(rs) ==
    IF rs = <<>> THEN <<>>
    ELSE InsertByStart(SortByStart(SubSeq(rs, 1, Len(rs) - 1)), rs[Len(rs)])

\* bytemuck::cast_slice::<u32, u8> on a little-endian target
RECURSIVE term_bytes(_)
term_bytes(terms) ==
    IF terms = <<>> THEN <<>>
    ELSE LET t == Head(terms)
         IN  <<t % 256, (t \div 256) % 256, (t \div 65536) % 256, (t \div 16777216) % 256>>
             \o term_bytes(Tail(terms))

\* the needle occurs in the haystack at byte offset pos (from 0)
MatchAt(needle, hay, pos) ==
    /\ pos + Len(needle) <= Len(hay)
    /\ \A j \in 1..Len(needle) : hay[pos + j] = needle[j]

\* memmem::Finder::find_iter from offset pos: the offsets of the successive
\* non-overlapping occurrences; the search resumes max(1, needle.len())
\* after each
RECURSIVE find_iter(_, _, _)
find_iter(needle, hay, pos) ==
    IF pos > Len(hay) THEN <<>>
    ELSE IF MatchAt(needle, hay, pos)
         THEN <<pos>> \o find_iter(needle, hay, pos + Max(1, Len(needle)))
    ELSE find_iter(needle, hay, pos + 1)

\* the outcome of a highlighter: the ranges, or a panic
Parts(parts) == [ok |-> TRUE, parts |-> parts]

\* PhraseHighlighter::highlight: the token at idx / 4 and the token
\* phrase.len() - 1 after it; the subtraction and each index can panic
highlight(phrase, sentence) ==
    LET found == find_iter(term_bytes(phrase), term_bytes(sentence.terms), 0)
        first(k) == found[k] \div 4
        last(k)  == first(k) + Len(phrase) - 1
        InTokens(i) == i >= 0 /\ i < Len(sentence.tokens)
    IN  IF \E k \in 1..Len(found) : ~(InTokens(first(k)) /\ InTokens(last(k))) THEN Panic
        ELSE Parts([k \in 1..Len(found) |->
                      SentenceRange(sentence.tokens[first(k) + 1].start,
                                    sentence.tokens[last(k) + 1].end)])

\* the outcome of filter_map: its verdict and the highlighted_parts it
\* leaves in the result, or a panic
Verdict(keep, parts) == [ok |-> TRUE, keep |-> keep, parts |-> parts]

\* the tail shared by the composite filter_maps
Collapsed(parts, highlights) ==
    IF highlights = <<>> THEN Verdict(FALSE, parts)
    ELSE Verdict(TRUE, collapse_overlapped_ranges(SortByStart(highlights)))

RECURSIVE filter_map(_, _, _)
\* the loop of IntersectingQuery::filter_map and
\* IntersectingPhraseQuery::filter_map over queries[k..]
RECURSIVE IntersectingFilterMap(_, _, _, _, _)
IntersectingFilterMap(q, sentence, parts, highlights, k) ==
    IF k > Len(q.queries) THEN Collapsed(parts, highlights)
    ELSE LET sub == filter_map(q.queries[k], sentence, parts)
         IN  IF ~sub.ok THEN Panic
             ELSE IF ~sub.keep THEN Verdict(FALSE, sub.parts)
             ELSE IntersectingFilterMap(q, sentence, <<>>, highlights \o sub.parts, k + 1)

\* the loop of UnionQuery::filter_map: the sub-queries' verdicts are dropped
RECURSIVE UnionFilterMap(_, _, _, _, _)
UnionFilterMap(q, sentence, parts, highlights, k) ==
    IF k > Len(q.queries) THEN Collapsed(parts, highlights)
    ELSE LET sub == filter_map(q.queries[k], sentence, parts)
         IN  IF ~sub.ok THEN Panic
             ELSE UnionFilterMap(q, sentence, <<>>, highlights \o sub.parts, k + 1)

\* Query::filter_map; KeywordsQuery keeps the trait's default, which
\* accepts the result and leaves its highlighted_parts alone
filter_map(q, sentence, parts) ==
    CASE q.kind = "Phrase" ->
           LET h == highlight(q.phrase, sentence)
           IN  IF ~h.ok THEN Panic ELSE Verdict(h.parts # <<>>, h.parts)
      [] q.kind = "Keywords" -> Verdict(TRUE, parts)
      [] q.kind \in {"Intersecting", "IntersectingPhrase"} ->
           IntersectingFilterMap(q, sentence, parts, <<>>, 1)
      [] q.kind = "Union" -> UnionFilterMap(q, sentence, parts, <<>>, 1)

\* the elements of a finite set of numbers in ascending order
RECURSIVE Ascending(_)
Ascending(S) ==
    IF S = {} THEN <<>>
    ELSE LET m == CHOOSE x \in S : \A y \in S : x <= y
         IN  <<m>> \o Ascending(S \ {m})

\* KeywordHighlighter::highlight: for each keyword in turn one range per
\* token index of terms_by_value, then sort_unstable_by_key(|t| t.start)
\* (ranges of equal start are the same token's, so the order is determined)
keyword_highlight(keywords, sentence) ==
    LET by_value == terms_by_value(sentence)
        of(k) == IF keywords[k] \in DOMAIN by_value
                 THEN LET idx == Ascending(by_value[keywords[k]])
                      IN  [j \in 1..Len(idx) |->
                              SentenceRange(sentence.tokens[idx[j] + 1].start,
                                            sentence.tokens[idx[j] + 1].end)]
                 ELSE <<>>
    IN  SortByStart(Flatten([k \in 1..Len(keywords) |-> of(k)]))

RECURSIVE find_highlights(_, _, _)
\* the loop shared by the find_highlights of IntersectingQuery,
\* IntersectingPhraseQuery and UnionQuery over queries[k..]: each sub-query
\* works on the result, whose highlighted_parts are then moved to `highlights`
RECURSIVE CollectHighlights(_, _, _, _, _)
CollectHighlights(q, sentence, parts, highlights, k) ==
    IF k > Len(q.queries) THEN collapse_overlapped_ranges(SortByStart(highlights))
    ELSE CollectHighlights(q, sentence, <<>>,
                           highlights \o find_highlights(q.queries[k], sentence, parts), k + 1)

\* Query::find_highlights: the highlighted_parts it leaves in a result that
\* came with `parts`; PhraseQuery does nothing, the intersections first take
\* the result's parts, UnionQuery starts from an empty list
find_highlights(q, sentence, parts) ==
    CASE q.kind = "Phrase" -> parts
      [] q.kind = "Keywords" -> keyword_highlight(q.keywords, sentence)
      [] q.kind \in {"Intersecting", "IntersectingPhrase"} ->
           CollectHighlights(q, sentence, <<>>, parts, 1)
      [] q.kind = "Union" -> CollectHighlights(q, sentence, parts, <<>>, 1)

----------------------------------------------------------------------------
(* engine/src/searcher.rs: SearchEngine::query, its iterator run to the    *)
(* end.  The outcome is the results yielded, and whether a panic cut the   *)
(* call short.                                                             *)

SearchResult(id, parts) == [id |-> id, highlighted_parts |-> parts]

Outcome(panicked, yielded) == [panicked |-> panicked, yielded |-> yielded]

\* the map and filter_map adapters over ids[k..]
RECURSIVE QueryResults(_, _, _, _)
QueryResults(db, q, ids, k) ==
    IF k > Len(ids) THEN Outcome(FALSE, <<>>)
    ELSE IF ids[k] \notin DOMAIN db.sentences THEN Outcome(TRUE, <<>>)
    ELSE LET v    == filter_map(q, db.sentences[ids[k]], <<>>)
             rest == QueryResults(db, q, ids, k + 1)
         IN  IF ~v.ok THEN Outcome(TRUE, <<>>)
             ELSE IF v.keep
                  THEN Outcome(rest.panicked, <<SearchResult(ids[k], v.parts)>> \o rest.yielded)
             ELSE rest

query(db, q) ==
    LET ids == find_sentence_ids(db, q, "TopLevel")
    IN  IF ~ids.ok THEN Outcome(TRUE, <<>>) ELSE QueryResults(db, q, IterIds(ids.ids), 1)

----------------------------------------------------------------------------
(* engine/src/query/parser.rs: Expression::parse, the lowering of an       *)
(* Expression to a query.  The Yoked wrappers forward every call to the    *)
(* query they hold (phrase.rs, keywords.rs); DynamicQuery and              *)
(* YokedIntersectingPhraseQuery, which the sources name without defining,  *)
(* are taken to do the same.  The intersection gets the filter of its      *)
(* operands, which apply it themselves.                                    *)

RECURSIVE parse(_, _, _, _)
parse(e, kv, doc_filter, optimize) ==
    CASE e.tag = "Literal" -> PhraseQuery(tokenize_phrase(kv, e.v), doc_filter)
      [] e.tag = "And" ->
           IF e.l.tag = "Literal" /\ e.r.tag = "Literal" /\ optimize
           THEN IntersectingPhraseQuery(
                    <<PhraseQuery(tokenize_phrase(kv, e.l.v), doc_filter),
                      PhraseQuery(tokenize_phrase(kv, e.r.v), doc_filter)>>, doc_filter)
           ELSE IntersectingQuery(<<parse(e.l, kv, doc_filter, optimize),
                                    parse(e.r, kv, doc_filter, optimize)>>, doc_filter)
      [] e.tag = "Or" ->
           IF e.l.tag = "Literal" /\ e.r.tag = "Literal" /\ optimize
           THEN LET lhs_terms == tokenize_phrase(kv, e.l.v)
                    rhs_terms == tokenize_phrase(kv, e.r.v)
                IN  IF Len(lhs_terms) = 1 /\ Len(rhs_terms) = 1
                    THEN KeywordsQuery(<<lhs_terms[1], rhs_terms[1]>>, doc_filter)
                    ELSE UnionQuery(<<PhraseQuery(lhs_terms, doc_filter),
                                      PhraseQuery(rhs_terms, doc_filter)>>)
           ELSE UnionQuery(<<parse(e.l, kv, doc_filter, optimize),
                             parse(e.r, kv, doc_filter, optimize)>>)

----------------------------------------------------------------------------
(* The merge specification: two sorted slices are drawn, merge_slices runs. *)

\* test::gen_list draws doc and sentence from 1..256 and sorts
MergeIdPool == {SentenceId(1, 1), SentenceId(1, 2), SentenceId(2, 1)}

SortedIdLists == {s \in SeqsUpTo(MergeIdPool, MaxMergeLen) : IsSortedIds(s)}

InitMerge ==
    /\ a \in SortedIdLists
    /\ b \in SortedIdLists
    /\ merged = None
    /\ input = None /\ parsed = None
    /\ builder = None /\ added = 0 /\ database = None /\ request = None /\ results = None /\ map = NoMap /\ lookup = NoLookup /\ id_list = NoList /\ tasks = {} /\ writes = <<>>
    /\ range_input = <<>> /\ collapsed = <<>>
    /\ corpus = <<>> /\ disk = EmptyMap /\ loaded = NoLoad
    /\ handle = 0 /\ held = EmptyMap /\ tempdirs = {} /\ update = NoUpdate

MergeSlices ==
    /\ merged = None
    /\ \E m \in merge_slices(a, b) : merged' = m
    /\ UNCHANGED <<a, b, input, parsed, builder, added, database, request, results, map, lookup, corpus, disk, loaded, handle, held, tempdirs, update, range_input, collapsed, id_list, tasks, writes>>

NextMerge == MergeSlices

SpecMerge == InitMerge /\ [][NextMerge]_vars

----------------------------------------------------------------------------
(* engine/src/query/parser.rs: the lexer (enum QueryToken, a logos lexer)  *)

Failed == [ok |-> FALSE]

\* #[regex(r"\s", logos::skip)]
IsSpace(c) == c \in {" ", "\t", "\n"}

\* one character of Ident: [^"\s)(]
IsIdentChar(c) == ~IsSpace(c) /\ c \notin {"\"", "(", ")"}

\* the position after the longest run of Ident characters that starts at i
RECURSIVE IdentEnd(_, _)
IdentEnd(s, i) ==
    IF i <= Len(s) /\ IsIdentChar(s[i]) THEN IdentEnd(s, i + 1) ELSE i

\* "([^"\\]|\\t|\\u|\\n|\\")*" from the character after the opening quote:
\* the position of the closing quote, or 0 when the regex does not match
RECURSIVE QuoteEnd(_, _)
QuoteEnd(s, i) ==
    IF i > Len(s) THEN 0
    ELSE IF s[i] = "\"" THEN i
    ELSE IF s[i] = "\\"
         THEN IF i + 1 <= Len(s) /\ s[i + 1] \in {"t", "u", "n", "\""}
              THEN QuoteEnd(s, i + 2)
              ELSE 0
    ELSE QuoteEnd(s, i + 1)

\* A run of Ident characters is the longest match; And and Or match the same
\* length only when the run is exactly the keyword, and then win by priority.
RunKind(run) ==
    IF run \in {<<"A", "N", "D">>, <<"a", "n", "d">>, <<"&", "&">>} THEN "And"
    ELSE IF run \in {<<"O", "R">>, <<"o", "r">>, <<"|", "|">>} THEN "Or"
    ELSE "Ident"

Tok(kind, text) == [kind |-> kind, text |-> text]

\* QueryToken::lexer(query).collect::<Result<Vec<_>, _>>(): the tokens from
\* position i on, or Failed at the first position where no token matches
RECURSIVE LexFrom(_, _)
LexFrom(s, i) ==
    IF i > Len(s) THEN [ok |-> TRUE, toks |-> <<>>]
    ELSE IF IsSpace(s[i]) THEN LexFrom(s, i + 1)
    ELSE IF s[i] = "(" \/ s[i] = ")"
         THEN LET rest == LexFrom(s, i + 1)
              IN  IF rest.ok
                  THEN [ok |-> TRUE,
                        toks |-> <<Tok(IF s[i] = "(" THEN "ParenOpen" ELSE "ParenClose", <<>>)>>
                                 \o rest.toks]
                  ELSE Failed
    ELSE IF s[i] = "\""
         THEN LET close == QuoteEnd(s, i + 1)
              IN  IF close = 0 THEN Failed
                  ELSE LET rest == LexFrom(s, close + 1)
                       IN  IF rest.ok
                           THEN [ok |-> TRUE,
                                 toks |-> <<Tok("QuotedString", SubSeq(s, i + 1, close - 1))>>
                                          \o rest.toks]
                           ELSE Failed
    ELSE LET e    == IdentEnd(s, i)
             run  == SubSeq(s, i, e - 1)
             rest == LexFrom(s, e)
         IN  IF rest.ok
             THEN [ok |-> TRUE,
                   toks |-> <<Tok(RunKind(run), IF RunKind(run) = "Ident" THEN run ELSE <<>>)>>
                            \o rest.toks]
             ELSE Failed

Lex(s) == LexFrom(s, 1)

----------------------------------------------------------------------------
(* engine/src/query/parser.rs: enum Expression and peg grammar query_grammar *)

Literal(v) == [tag |-> "Literal", v |-> v]
And(l, r) == [tag |-> "And", l |-> l, r |-> r]
Or(l, r) == [tag |-> "Or", l |-> l, r |-> r]

Matched(e, p) == [ok |-> TRUE, e |-> e, p |-> p]

KindAt(toks, p) == IF p >= 1 /\ p <= Len(toks) THEN toks[p].kind ELSE "EOF"

\* rule ident()+ : the position after the run of Ident tokens that starts at p
RECURSIVE IdentsEnd(_, _)
IdentsEnd(toks, p) == IF KindAt(toks, p) = "Ident" THEN IdentsEnd(toks, p + 1) ELSE p

\* l.join(" ") over the Ident tokens p..q
RECURSIVE JoinIdents(_, _, _)
JoinIdents(toks, p, q) ==
    IF p > q THEN <<>>
    ELSE IF p = q THEN toks[p].text
    ELSE toks[p].text \o <<" ">> \o JoinIdents(toks, p + 1, q)

\* rule literal() = [QuotedString(v)] / l:(ident()+)
ParseLiteral(toks, p) ==
    IF KindAt(toks, p) = "QuotedString" THEN Matched(Literal(toks[p].text), p + 1)
    ELSE LET q == IdentsEnd(toks, p)
         IN  IF q > p THEN Matched(Literal(JoinIdents(toks, p, q - 1)), q) ELSE Failed

RECURSIVE ParseAtom(_, _)
RECURSIVE ParseOr(_, _)
RECURSIVE ParseAnd(_, _)
RECURSIVE GrowOr(_, _)
RECURSIVE GrowAnd(_, _)

\* atom() that does not ask for the closing parenthesis
ParseAtom_NoClose(toks, p) ==
    LET lit == ParseLiteral(toks, p)
    IN  IF lit.ok THEN lit
        ELSE IF KindAt(toks, p) = "ParenOpen"
             THEN LET v == ParseAnd(toks, p + 1)
                  IN  IF v.ok
                      THEN Matched(v.e, IF KindAt(toks, v.p) = "ParenClose" THEN v.p + 1 ELSE v.p)
                      ELSE Failed
        ELSE Failed

\* rule atom() = literal() / [ParenOpen] v:and() [ParenClose]
ParseAtom(toks, p) ==
    LET lit == ParseLiteral(toks, p)
    IN  IF lit.ok THEN lit
        ELSE IF KindAt(toks, p) = "ParenOpen"
             THEN LET v == ParseAnd(toks, p + 1)
                  IN  IF v.ok /\ KindAt(toks, v.p) = "ParenClose"
                      THEN Matched(v.e, v.p + 1)
                      ELSE Failed
        ELSE Failed

\* #[cache_left_rec] rule or() = l:or() [Or] r:atom() / atom()
\* The cached seed starts as a failure, so the first pass is atom(); each
\* further pass extends the seed by [Or] atom() while that makes progress.
GrowOr(toks, seed) ==
    IF KindAt(toks, seed.p) = "Or"
    THEN LET r == ParseAtom(toks, seed.p + 1)
         IN  IF r.ok THEN GrowOr(toks, Matched(Or(seed.e, r.e), r.p)) ELSE seed
    ELSE seed

ParseOr(toks, p) ==
    LET seed == ParseAtom(toks, p)
    IN  IF seed.ok THEN GrowOr(toks, seed) ELSE Failed

\* and() written right-recursively: or() [And] and()
GrowAnd_RightAssoc(toks, seed) ==
    IF KindAt(toks, seed.p) = "And"
    THEN LET r == ParseAnd(toks, seed.p + 1)
         IN  IF r.ok THEN Matched(And(seed.e, r.e), r.p) ELSE seed
    ELSE seed

\* #[cache_left_rec] rule and() = l:and() [And] r:or() / or()
GrowAnd(toks, seed) ==
    IF KindAt(toks, seed.p) = "And"
    THEN LET r == ParseOr(toks, seed.p + 1)
         IN  IF r.ok THEN GrowAnd(toks, Matched(And(seed.e, r.e), r.p)) ELSE seed
    ELSE seed

ParseAnd(toks, p) ==
    LET seed == ParseOr(toks, p)
    IN  IF seed.ok THEN GrowAnd(toks, seed) ELSE Failed

\* pub rule expression() = and(), which must consume every token
expression(toks) ==
    LET r == ParseAnd(toks, 1)
    IN  IF r.ok /\ r.p = Len(toks) + 1 THEN r ELSE Failed

\* Option<_>: what parse_query returns
Some(v) == [st |-> "Some", v |-> v]

NoQuery == [st |-> "None"]

\* Database::parse_query up to the Expression: None when the lexer or the
\* grammar fails (the two `.ok()?`), else Some(expr)
parse_expression(text) ==
    LET lexed == Lex(text)
    IN  IF ~lexed.ok THEN NoQuery
        ELSE LET r == expression(lexed.toks)
             IN  IF r.ok THEN Some(r.e) ELSE NoQuery

----------------------------------------------------------------------------
(* The parser specification: a query string is drawn, parse_query runs.    *)

MaxLexemes == 5

Pending == [st |-> "Pending"]

\* The pieces query strings are made of: identifiers, both operators, the
\* parentheses and the quote character (two of them make a quoted string, a
\* lone one an unclosed quote).
Lexemes ==
    { <<"a">>, <<"b">>, <<"c">>, <<"A", "N", "D">>, <<"o", "r">>, <<"(">>, <<")">>, <<"\"">> }

\* The pieces are written either apart, with two spaces between them, or
\* run together, as in `(a)` or `aANDb`.
Separators == { <<" ", " ">>, <<>> }

RECURSIVE Join(_, _)
Join(ls, sep) ==
    IF ls = <<>> THEN <<>>
    ELSE IF Len(ls) = 1 THEN ls[1]
    ELSE ls[1] \o sep \o Join(Tail(ls), sep)

InitParse ==
    /\ \E ls \in SeqsUpTo(Lexemes, MaxLexemes), sep \in Separators : input = Join(ls, sep)
    /\ parsed = Pending
    /\ a = None /\ b = None /\ merged = None
    /\ builder = None /\ added = 0 /\ database = None /\ request = None /\ results = None /\ map = NoMap /\ lookup = NoLookup /\ id_list = NoList /\ tasks = {} /\ writes = <<>>
    /\ range_input = <<>> /\ collapsed = <<>>
    /\ corpus = <<>> /\ disk = EmptyMap /\ loaded = NoLoad
    /\ handle = 0 /\ held = EmptyMap /\ tempdirs = {} /\ update = NoUpdate

ParseQuery ==
    /\ parsed = Pending
    /\ parsed' = parse_expression(input)
    /\ UNCHANGED <<a, b, merged, input, builder, added, database, request, results, map, lookup, corpus, disk, loaded, handle, held, tempdirs, update, range_input, collapsed, id_list, tasks, writes>>

NextParse == ParseQuery

SpecParse == InitParse /\ [][NextParse]_vars

----------------------------------------------------------------------------
(* The database specification: documents are added to a builder, build_in  *)
(* turns it into a Database, and a search request (satt/src/api/search.rs) *)
(* is served by parse_query or phrase_query followed by                    *)
(* SearchEngine::query.                                                    *)

MaxDocs == 2

DocIds == {1, 2}

Metas == {0, 1}

\* the document texts: one line per sentence
Texts ==
    { <<"A", " ", "b", " ", "c">>,
      <<"c">>,
      <<"c", "\n", "a", " ", "b", " ", "c">>,
      <<"a", " ", "a">> }

Documents == [id : DocIds, text : Texts, metadata : Metas, data : {"data"}]

DocFilters == {UnitFilter, ClosureFilter({1})}

QueryLiterals == { <<"a">>, <<"b">>, <<"\"", "\"">>, <<"a", " ", "b">> }

Operators == { <<"A", "N", "D">>, <<"o", "r">> }

WordA == <<"a">>
WordB == <<"b">>
WordC == <<"c">>

\* the query strings of the Advanced requests: one and two literals from
\* QueryLiterals, a, b and c under every pair of operators and grouping,
\* `a or b AND c or a b`, and a string that is no query
AdvancedQueries ==
    {Join(<<l>>, <<" ">>) : l \in QueryLiterals \cup {WordC}}
    \cup {Join(<<l, op, r>>, <<" ">>) : l \in QueryLiterals, op \in Operators, r \in QueryLiterals}
    \cup {Join(<<WordA, op1, WordB, op2, WordC>>, <<" ">>) : op1 \in Operators, op2 \in Operators}
    \cup {Join(<<<<"(">>, WordA, <<"A", "N", "D">>, WordB, <<")">>, <<"o", "r">>, WordC>>, <<" ">>),
          Join(<<WordA, <<"o", "r">>, <<"(">>, WordB, <<"A", "N", "D">>, WordC, <<")">>>>, <<" ">>),
          Join(<<WordA, <<"o", "r">>, WordB, <<"A", "N", "D">>, WordC, <<"o", "r">>, <<"a", " ", "b">>>>, <<" ">>),
          Join(<<WordA, <<"A", "N", "D">>>>, <<" ">>)}

\* the texts of the Phrase requests
PhraseQueries == { <<"a", " ", "b">>, <<"b">>, <<>>, <<"a", " ", "o", "r", " ", "b">> }

Requests ==
    [st : {"Some"}, kind : {"Advanced"}, query : AdvancedQueries, filter : DocFilters]
    \cup [st : {"Some"}, kind : {"Phrase"}, query : PhraseQueries, filter : DocFilters]

NoDatabase == [st |-> "None"]
NoRequest == [st |-> "None"]

Init ==
    /\ builder = NewBuilder /\ added = 0
    /\ database = NoDatabase
    /\ request = NoRequest
    /\ results = EmptyMap /\ map = NoMap /\ lookup = NoLookup /\ id_list = NoList /\ tasks = {} /\ writes = <<>>
    /\ range_input = <<>> /\ collapsed = <<>>
    /\ corpus = <<>> /\ disk = EmptyMap /\ loaded = NoLoad
    /\ handle = 0 /\ held = EmptyMap /\ tempdirs = {} /\ update = NoUpdate
    /\ a = None /\ b = None /\ merged = None /\ input = None /\ parsed = None

\* DatabaseBuilder::add_document
AddDocument(doc) ==
    /\ builder.st = "Open"
    /\ added < MaxDocs
    /\ builder' = add_document(builder, doc)
    /\ added' = added + 1
    /\ UNCHANGED <<a, b, merged, input, parsed, database, request, results, map, lookup, corpus, disk, loaded, handle, held, tempdirs, update, range_input, collapsed, id_list, tasks, writes>>

\* DatabaseBuilder::build_in, which consumes the builder (the run in which
\* every file is written)
BuildIn ==
    /\ builder.st = "Open"
    /\ database' = build_in(builder)
    /\ builder' = [st |-> "Consumed"]
    /\ UNCHANGED <<a, b, merged, input, parsed, added, request, results, map, lookup, corpus, disk, loaded, handle, held, tempdirs, update, range_input, collapsed, id_list, tasks, writes>>

\* a search request arrives
Receive(req) ==
    /\ database.st = "Built"
    /\ request.st = "None"
    /\ request' = req
    /\ UNCHANGED <<a, b, merged, input, parsed, builder, added, database, results, map, lookup, corpus, disk, loaded, handle, held, tempdirs, update, range_input, collapsed, id_list, tasks, writes>>

\* what a caller of parse_query / phrase_query and query observes
Answer(valid, out) == [valid |-> valid, panicked |-> out.panicked, yielded |-> out.yielded]

\* Database::parse_query then SearchEngine::query
advanced_search(db, text, filter, optimize) ==
    LET e == parse_expression(text)
    IN  IF e = NoQuery THEN Answer(FALSE, Outcome(FALSE, <<>>))
        ELSE Answer(TRUE, query(db, parse(e.v, db.term_map, filter, optimize)))

\* Database::phrase_query then SearchEngine::query
phrase_search(db, text, filter) ==
    Answer(TRUE, query(db, PhraseQuery(tokenize_phrase(db.term_map, text), filter)))

Mode(optimize) == IF optimize THEN "optimized" ELSE "plain"

SearchAdvanced(optimize) ==
    /\ request.st = "Some" /\ request.kind = "Advanced"
    /\ Mode(optimize) \notin DOMAIN results
    /\ results' = (Mode(optimize) :> advanced_search(database, request.query, request.filter, optimize))
                      @@ results
    /\ UNCHANGED <<a, b, merged, input, parsed, builder, added, database, request, map, lookup, corpus, disk, loaded, handle, held, tempdirs, update, range_input, collapsed, id_list, tasks, writes>>

SearchPhrase ==
    /\ request.st = "Some" /\ request.kind = "Phrase"
    /\ "phrase" \notin DOMAIN results
    /\ results' = ("phrase" :> phrase_search(database, request.query, request.filter)) @@ results
    /\ UNCHANGED <<a, b, merged, input, parsed, builder, added, database, request, map, lookup, corpus, disk, loaded, handle, held, tempdirs, update, range_input, collapsed, id_list, tasks, writes>>

Next ==
    \/ \E doc \in Documents : AddDocument(doc)
    \/ BuildIn
    \/ \E req \in Requests : Receive(req)
    \/ \E optimize \in BOOLEAN : SearchAdvanced(optimize)
    \/ SearchPhrase

Spec == Init /\ [][Next]_vars

C7_IterCountIsDedupCount ==
    merged # None => Len(IterIds(merged)) = Len(Dedup(SortIds(a \o b)))

----------------------------------------------------------------------------
(* Claims about the parser, checked under SpecParse.                       *)

\* The grammar of query_grammar read as a context-free grammar: whether the
\* tokens i..j derive from literal, atom, or, and.
DerivesLiteral(toks, i, j) ==
    \/ i = j /\ toks[i].kind = "QuotedString"
    \/ i <= j /\ \A k \in i..j : toks[k].kind = "Ident"

RECURSIVE DerivesAtom(_, _, _)
RECURSIVE DerivesOr(_, _, _)
RECURSIVE DerivesAnd(_, _, _)

DerivesAtom(toks, i, j) ==
    \/ DerivesLiteral(toks, i, j)
    \/ /\ j >= i + 2
       /\ toks[i].kind = "ParenOpen"
       /\ toks[j].kind = "ParenClose"
       /\ DerivesAnd(toks, i + 1, j - 1)

DerivesOr(toks, i, j) ==
    \/ DerivesAtom(toks, i, j)
    \/ \E k \in (i + 1)..(j - 1) :
          toks[k].kind = "Or" /\ DerivesOr(toks, i, k - 1) /\ DerivesAtom(toks, k + 1, j)

DerivesAnd(toks, i, j) ==
    \/ DerivesOr(toks, i, j)
    \/ \E k \in (i + 1)..(j - 1) :
          toks[k].kind = "And" /\ DerivesAnd(toks, i, k - 1) /\ DerivesOr(toks, k + 1, j)

Derivable(toks) == Len(toks) >= 1 /\ DerivesAnd(toks, 1, Len(toks))

\* Without a backslash in the string, the lexer fails exactly when a quote
\* is left unclosed, that is when the number of quote characters is odd.
UnclosedQuote(s) == Count(s, "\"") % 2 = 1

\* C9: parse_query returns None exactly when the query string fails to lex
\* or its token sequence is not derivable from the grammar, and Some query
\* for every derivable token sequence.
C9_NoneIffNotDerivable ==
    parsed # Pending =>
        (parsed = NoQuery <=> (UnclosedQuote(input) \/ ~Derivable(Lex(input).toks)))

\* C9 witness: a quoted string directly next to another literal is rejected
C9_Witness ==
    /\ parsed = NoQuery
    /\ input = <<"\"", "a", "\"", "a">>

\* What "OR binds tighter than AND, both left-associative" makes of a token
\* sequence without parentheses: literals separated by operators, folded
\* left to right; cur is the Or-chain being built, acc the And-chain so far.
NoAcc == [tag |-> "NoAcc"]

CloseChain(acc, cur) == IF acc = NoAcc THEN cur ELSE And(acc, cur)

LiteralEnd(toks, p) ==
    IF KindAt(toks, p) = "QuotedString" THEN p + 1 ELSE IdentsEnd(toks, p)

LiteralText(toks, p) ==
    IF KindAt(toks, p) = "QuotedString" THEN toks[p].text
    ELSE Join([k \in 1..(IdentsEnd(toks, p) - p) |-> toks[p + k - 1].text], <<" ">>)

RECURSIVE FoldFlat(_, _, _, _)
FoldFlat(toks, p, acc, cur) ==
    IF p > Len(toks) THEN CloseChain(acc, cur)
    ELSE LET lit == Literal(LiteralText(toks, p + 1))
             q   == LiteralEnd(toks, p + 1)
         IN  IF toks[p].kind = "Or"
             THEN FoldFlat(toks, q, acc, Or(cur, lit))
             ELSE FoldFlat(toks, q, CloseChain(acc, cur), lit)

ExpectedFlat(toks) ==
    FoldFlat(toks, LiteralEnd(toks, 1), NoAcc, Literal(LiteralText(toks, 1)))

NoParens(toks) == \A k \in 1..Len(toks) : toks[k].kind \notin {"ParenOpen", "ParenClose"}

La == Literal(<<"a">>)
Lb == Literal(<<"b">>)
Lc == Literal(<<"c">>)

\* C10: OR binds tighter than AND and both are left-associative: `a AND b
\* OR c` is And(a, Or(b, c)), `a OR b AND c` is And(Or(a, b), c), `a AND b
\* AND c` is And(And(a, b), c), consecutive identifiers form one literal
\* joined with single spaces; and so for every input without parentheses.
C10_OrTighterLeftAssoc ==
    parsed # Pending =>
        /\ input = <<"a", " ", " ", "A", "N", "D", " ", " ", "b", " ", " ", "o", "r", " ", " ", "c">>
             => parsed = Some(And(La, Or(Lb, Lc)))
        /\ input = <<"a", " ", " ", "o", "r", " ", " ", "b", " ", " ", "A", "N", "D", " ", " ", "c">>
             => parsed = Some(And(Or(La, Lb), Lc))
        /\ input = <<"a", " ", " ", "A", "N", "D", " ", " ", "b", " ", " ", "A", "N", "D", " ", " ", "c">>
             => parsed = Some(And(And(La, Lb), Lc))
        /\ input = <<"a", " ", " ", "o", "r", " ", " ", "b", " ", " ", "o", "r", " ", " ", "c">>
             => parsed = Some(Or(Or(La, Lb), Lc))
        /\ input = <<"a", " ", " ", "b", " ", " ", "c">>
             => parsed = Some(Literal(<<"a", " ", "b", " ", "c">>))
        /\ (parsed # NoQuery /\ NoParens(Lex(input).toks))
             => parsed = Some(ExpectedFlat(Lex(input).toks))

\* C10 witness: `a AND b or c` has been parsed
C10_Witness ==
    /\ input = <<"a", " ", " ", "A", "N", "D", " ", " ", "b", " ", " ", "o", "r", " ", " ", "c">>
    /\ parsed # Pending
    /\ parsed # NoQuery


----------------------------------------------------------------------------
(* The phrase specification: the builder has already been given a document *)
(* that makes the term map hold VocabularySize words, so that the next new *)
(* word gets a term id above 255; one more document is added, the database *)
(* is built and a phrase request is served with the trivial filter.        *)

VocabularySize == 255

MaxSentenceWords == 4

MaxPhraseWords == 2

WordsPerLine == 16

\* the n-th word of the vocabulary, n from 0: four letters, none of them
\* a suffix that the stemmer removes
VocabularyWord(n) ==
    LET letter == <<"a", "b", "c", "z">>
    IN  <<letter[((n \div 64) % 4) + 1], letter[((n \div 16) % 4) + 1],
          letter[((n \div 4) % 4) + 1], letter[(n % 4) + 1]>>

\* the first `count` words of the vocabulary, WordsPerLine to a line: each
\* word takes four characters and the separator after it a fifth
VocabularyText(count) ==
    [i \in 1..(5 * count - 1) |->
        LET n == (i - 1) \div 5
            k == (i - 1) % 5
        IN  IF k < 4 THEN VocabularyWord(n)[k + 1]
            ELSE IF (n + 1) % WordsPerLine = 0 THEN "\n" ELSE " "]

VocabularyDocument ==
    [id |-> 1, text |-> VocabularyText(VocabularySize), metadata |-> 0, data |-> "data"]

\* the first word of the vocabulary (term 1) and the first word outside it
\* (term VocabularySize + 1 once a document has brought it in)
PhraseWords == {VocabularyWord(0), VocabularyWord(VocabularySize)}

WordLists(n) == UNION {[1..k -> PhraseWords] : k \in 1..n}

PhraseDocuments ==
    {[id |-> 2, text |-> Join(ws, <<" ">>), metadata |-> 0, data |-> "data"] :
        ws \in WordLists(MaxSentenceWords)}

PhraseRequests ==
    {[st |-> "Some", kind |-> "Phrase", query |-> Join(ws, <<" ">>), filter |-> UnitFilter] :
        ws \in WordLists(MaxPhraseWords)}

InitPhrase ==
    /\ builder = add_document(NewBuilder, VocabularyDocument) /\ added = MaxDocs - 1
    /\ database = NoDatabase
    /\ request = NoRequest
    /\ results = EmptyMap /\ map = NoMap /\ lookup = NoLookup /\ id_list = NoList /\ tasks = {} /\ writes = <<>>
    /\ range_input = <<>> /\ collapsed = <<>>
    /\ corpus = <<>> /\ disk = EmptyMap /\ loaded = NoLoad
    /\ handle = 0 /\ held = EmptyMap /\ tempdirs = {} /\ update = NoUpdate
    /\ a = None /\ b = None /\ merged = None /\ input = None /\ parsed = None

NextPhrase ==
    \/ \E doc \in PhraseDocuments : AddDocument(doc)
    \/ BuildIn
    \/ \E req \in PhraseRequests : Receive(req)
    \/ SearchPhrase

SpecPhrase == InitPhrase /\ [][NextPhrase]_vars

----------------------------------------------------------------------------
(* The highlight specification: the search handler of                      *)
(* satt/src/api/search.rs serves a request `x OR y`: parse_query with      *)
(* optimize = true, Database::query, and find_highlights on every result.  *)

\* a known word, a known word in upper case, and a word of no document
KeywordWords == { <<"a">>, <<"B">>, <<"z">> }

\* the three spellings of the Or token
OrSpellings == { <<"O", "R">>, <<"o", "r">>, <<"|", "|">> }

KeywordQueries == {Join(<<x, op, y>>, <<" ">>) : x \in KeywordWords, op \in OrSpellings, y \in KeywordWords}

KeywordRequests == [st : {"Some"}, kind : {"Advanced"}, query : KeywordQueries, filter : DocFilters]

\* db.parse_query(&request.query, filter, true), db.query(&query) and
\* query.find_highlights(&mut res) on each result
highlighted_search(db, text, filter) ==
    LET e == parse_expression(text)
    IN  IF e = NoQuery THEN Answer(FALSE, Outcome(FALSE, <<>>))
        ELSE LET q   == parse(e.v, db.term_map, filter, TRUE)
                 out == query(db, q)
             IN  Answer(TRUE, Outcome(out.panicked,
                     [k \in 1..Len(out.yielded) |->
                         SearchResult(out.yielded[k].id,
                                      find_highlights(q, db.sentences[out.yielded[k].id],
                                                      out.yielded[k].highlighted_parts))]))

SearchHighlighted ==
    /\ request.st = "Some" /\ request.kind = "Advanced"
    /\ "highlighted" \notin DOMAIN results
    /\ results' = ("highlighted" :> highlighted_search(database, request.query, request.filter))
                      @@ results
    /\ UNCHANGED <<a, b, merged, input, parsed, builder, added, database, request, map, lookup, corpus, disk, loaded, handle, held, tempdirs, update, range_input, collapsed, id_list, tasks, writes>>

NextKeywords ==
    \/ \E doc \in Documents : AddDocument(doc)
    \/ BuildIn
    \/ \E req \in KeywordRequests : Receive(req)
    \/ SearchHighlighted

SpecKeywords == Init /\ [][NextKeywords]_vars

----------------------------------------------------------------------------
(* storage/src/lib.rs and storage/src/store.rs: ImmutableMap over a        *)
(* MultiStorage.  The minimal perfect hash function (ph::fmph::GOFunction) *)
(* is any function that sends the built keys one-to-one onto the slots     *)
(* 0..N-1; for any other key it answers None or some slot.                 *)

\* the keys that maps are built from and asked for
MapKeys == {1, 2, 3}

MaxValueLen == 1

\* the values: slices of at most MaxValueLen elements
MapValues == SeqsUpTo({7, 8}, MaxValueLen)

\* GOFunction::get answering None
NoSlot == -1

\* GOFunction::from_slice_with_conf(&keys, conf): the functions it can return
Hashers(keys) ==
    LET n == Len(keys)
    IN  {h \in [MapKeys -> (0..(n - 1)) \cup {NoSlot}] :
            /\ \A k \in Range(keys) : h[k] # NoSlot
            /\ \A k1, k2 \in Range(keys) : h[k1] = h[k2] => k1 = k2}

\* MultiStorageBuilder::new(length, file)
MultiStorageBuilder(length) ==
    [cursor |-> 0, positions |-> [i \in 0..(length - 1) |-> <<0, 0>>], out |-> <<>>]

\* MultiStorageBuilder::serialize(index, value)
serialize(sb, index, value) ==
    [cursor    |-> sb.cursor + Len(value),
     positions |-> [sb.positions EXCEPT ![index] = <<sb.cursor, Len(value)>>],
     out       |-> sb.out \o value]

\* MultiStorageBuilder::finish: the file is mapped as it was written
finish(sb) == [kind |-> "Multi", positions |-> sb.positions, store |-> sb.out]

\* RkyvStorageBuilder::create(length, file)
RkyvStorageBuilder(length) == [positions |-> [i \in 0..(length - 1) |-> 0], out |-> <<>>]

\* RkyvStorageBuilder::serialize(index, data): serialize_value appends the
\* archived value and returns its position, here the number of the values
\* written before it
serialize_value(sb, index, data) ==
    [positions |-> [sb.positions EXCEPT ![index] = Len(sb.out)], out |-> Append(sb.out, data)]

\* RkyvStorageBuilder::finish
finish_rkyv(sb) == [kind |-> "Rkyv", positions |-> sb.positions, store |-> sb.out]

\* SimpleStorage::build(values, file)
SimpleStorage(values) == [kind |-> "Simple", len |-> Len(values), store |-> values]

\* the loop of build_multi over the pairs k..: the storage builder and the
\* slots of reordered_keys written so far
RECURSIVE BuildLoop(_, _, _, _, _, _)
BuildLoop(keys, vals, hasher, k, sb, reordered_keys) ==
    IF k > Len(keys) THEN [sb |-> sb, keys |-> reordered_keys]
    ELSE LET new_idx == hasher[keys[k]]
         IN  BuildLoop(keys, vals, hasher, k + 1,
                       serialize(sb, new_idx, vals[k]),
                       (new_idx :> keys[k]) @@ reordered_keys)

\* ImmutableMap::build_multi with the hash function that was constructed
build_multi(keys, vals, hasher) ==
    LET done == BuildLoop(keys, vals, hasher, 1, MultiStorageBuilder(Len(vals)), EmptyMap)
    IN  [st |-> "Built", hasher |-> hasher, keys |-> done.keys, store |-> finish(done.sb)]

\* the loop of build_rkyv over the pairs k..
RECURSIVE BuildRkyvLoop(_, _, _, _, _, _)
BuildRkyvLoop(keys, vals, hasher, k, sb, reordered_keys) ==
    IF k > Len(keys) THEN [sb |-> sb, keys |-> reordered_keys]
    ELSE LET new_idx == hasher[keys[k]]
         IN  BuildRkyvLoop(keys, vals, hasher, k + 1,
                           serialize_value(sb, new_idx, vals[k]),
                           (new_idx :> keys[k]) @@ reordered_keys)

\* ImmutableMap::build_rkyv with the hash function that was constructed
build_rkyv(keys, vals, hasher) ==
    LET done == BuildRkyvLoop(keys, vals, hasher, 1, RkyvStorageBuilder(Len(keys)), EmptyMap)
    IN  [st |-> "Built", hasher |-> hasher, keys |-> done.keys, store |-> finish_rkyv(done.sb)]

\* Storage::get, that is try_get(idx).unwrap(): the slice at positions[idx]
\* of a MultiStorage, the archived value at positions[idx] of a RkyvStorage,
\* the element idx of a SimpleStorage
store_get(store, idx) ==
    CASE store.kind = "Multi" ->
           SubSeq(store.store, store.positions[idx][1] + 1,
                  store.positions[idx][1] + store.positions[idx][2])
      [] store.kind = "Rkyv" -> store.store[store.positions[idx] + 1]
      [] store.kind = "Simple" -> store.store[idx + 1]

NoValue == [st |-> "None"]

\* ImmutableMap::get without the comparison with the stored key
get_NoKeyCheck(m, key) ==
    LET idx == m.hasher[key]
    IN  IF idx = NoSlot THEN NoValue ELSE Some(store_get(m.store, idx))

\* ImmutableMap::get
get(m, key) ==
    LET idx == m.hasher[key]
    IN  IF idx = NoSlot THEN NoValue
        ELSE IF m.keys[idx] # key THEN NoValue
        ELSE Some(store_get(m.store, idx))

----------------------------------------------------------------------------
(* The map specification: a map is built from pairs of distinct keys, in   *)
(* the order in which the HashMap hands them out, and keys are looked up.  *)

\* the orders in which a HashMap can hand out the keys S
KeyOrders(S) == {o \in [1..Cardinality(S) -> S] : \A i, j \in 1..Cardinality(S) : o[i] = o[j] => i = j}

\* ImmutableMap::multi_from_map from the HashMap `pairs`, which is kept
\* beside the map that was built from it
MultiFromMap(pairs) ==
    /\ map.st = "None"
    /\ \E keys \in KeyOrders(DOMAIN pairs) :
         \E hasher \in Hashers(keys) :
            map' = build_multi(keys, [k \in 1..Len(keys) |-> pairs[keys[k]]], hasher)
                       @@ [pairs |-> pairs]
    /\ UNCHANGED <<a, b, merged, input, parsed, builder, added, database, request, results, lookup, corpus, disk, loaded, handle, held, tempdirs, update, range_input, collapsed, id_list, tasks, writes>>

\* ImmutableMap::get
Get(key) ==
    /\ map.st = "Built"
    /\ lookup' = [st |-> "Some", key |-> key, got |-> get(map, key)]
    /\ UNCHANGED <<a, b, merged, input, parsed, builder, added, database, request, results, map, corpus, disk, loaded, handle, held, tempdirs, update, range_input, collapsed, id_list, tasks, writes>>

InitMap ==
    /\ map = NoMap /\ lookup = NoLookup
    /\ a = None /\ b = None /\ merged = None /\ input = None /\ parsed = None
    /\ builder = None /\ added = 0 /\ database = None /\ request = None /\ results = None /\ id_list = NoList /\ tasks = {} /\ writes = <<>>
    /\ range_input = <<>> /\ collapsed = <<>>
    /\ corpus = <<>> /\ disk = EmptyMap /\ loaded = NoLoad
    /\ handle = 0 /\ held = EmptyMap /\ tempdirs = {} /\ update = NoUpdate

NextMap ==
    \/ \E S \in SUBSET MapKeys : \E pairs \in [S -> MapValues] : MultiFromMap(pairs)
    \/ \E key \in MapKeys : Get(key)

SpecMap == InitMap /\ [][NextMap]_vars

----------------------------------------------------------------------------
(* engine/src/builder.rs build_in and engine/src/lib.rs persist and load   *)
(* at the level of the files: build_in(dir) writes the four data files of  *)
(* `dir`, persist(dir) the five header files of `dir`/headers, load(dir)   *)
(* reads all nine.  A header file holds the fields of the struct that is   *)
(* written to it.                                                          *)

Dirs == {"db", "tmp"}

Path(dir, name) == <<dir, name>>

\* the keys that the maps of a database can be asked for
TermPool == 0..4
DocPool == 0..3
SentencePool == DocPool \X (0..2)

\* the elements of a finite set of SentenceIds in ascending order
RECURSIVE AscendingIds(_)
AscendingIds(S) ==
    IF S = {} THEN <<>>
    ELSE LET m == CHOOSE x \in S : \A y \in S : IdLeq(x, y)
         IN  <<m>> \o AscendingIds(S \ {m})

\* an order in which a HashMap hands out its keys: the ascending order
\* `sorted` rotated by `seed`
SeededOrder(sorted, seed) ==
    [i \in 1..Len(sorted) |-> sorted[((i - 1 + seed) % Len(sorted)) + 1]]

\* a minimal perfect hash function of the keys `sorted`: the descending
\* order rotated by `seed`; every other key of `pool` lands on a slot too
SeededHasher(sorted, pool, seed) ==
    LET n == Len(sorted)
        pos(k) == CHOOSE i \in 1..n : sorted[i] = k
    IN  [k \in pool |->
            IF n = 0 THEN NoSlot
            ELSE IF k \in Range(sorted) THEN (n - pos(k) + seed) % n
            ELSE seed % n]

\* MultiMap::multi_from_map and RkyvMap::rkyv_from_map of the function m,
\* whose keys in ascending order are `sorted`
multi_from_map(m, sorted, pool, seed) ==
    LET keys == SeededOrder(sorted, seed)
    IN  build_multi(keys, [k \in 1..Len(keys) |-> m[keys[k]]], SeededHasher(sorted, pool, seed))

rkyv_from_map(m, sorted, pool, seed) ==
    LET keys == SeededOrder(sorted, seed)
    IN  build_rkyv(keys, [k \in 1..Len(keys) |-> m[keys[k]]], SeededHasher(sorted, pool, seed))

\* DatabaseBuilder::build_in down to the stores: the Database it returns
build_in_stores(bld, seed) ==
    LET db == build_in(bld)
    IN  [st        |-> "Built",
         search    |-> [doc_meta  |-> SimpleStorage([i \in 1..Cardinality(DOMAIN db.doc_meta) |->
                                                        db.doc_meta[i - 1]]),
                        sentences |-> rkyv_from_map(db.sentences, AscendingIds(DOMAIN db.sentences),
                                                    SentencePool, seed),
                        index     |-> multi_from_map(db.index, Ascending(DOMAIN db.index),
                                                     TermPool, seed)],
         documents |-> rkyv_from_map(db.documents, Ascending(DOMAIN db.documents), DocPool, seed),
         term_map  |-> db.term_map]

\* the four files that build_in leaves in dir: each store's mapped file
data_files(db, dir) ==
    (Path(dir, "sentences.index.joie") :> db.search.index.store.store)
    @@ (Path(dir, "sentences.storage.joie") :> db.search.sentences.store.store)
    @@ (Path(dir, "documents.storage.joie") :> db.documents.store.store)
    @@ (Path(dir, "documents.fast.joie") :> db.search.doc_meta.store)

\* PersistentStorage::header: the position table of a MultiStorage or a
\* RkyvStorage, the length of a SimpleStorage
header(store) == IF store.kind = "Simple" THEN store.len ELSE store.positions

\* PersistentStorage::load(header, file)
load_store(kind, store_header, file) ==
    IF kind = "Simple" THEN [kind |-> kind, len |-> store_header, store |-> file]
    ELSE [kind |-> kind, positions |-> store_header, store |-> file]

\* into_header with the keys in the reverse of their slot order
into_header_ReversedKeys(m) ==
    LET n == Cardinality(DOMAIN m.keys)
        lo == IF n = 0 THEN 0 ELSE CHOOSE i \in DOMAIN m.keys : \A j \in DOMAIN m.keys : i <= j
    IN  [keys |-> [i \in DOMAIN m.keys |-> m.keys[lo + (n - 1) - (i - lo)]],
         hasher |-> m.hasher, store_header |-> header(m.store)]

\* ImmutableMap::into_header
into_header(m) == [keys |-> m.keys, hasher |-> m.hasher, store_header |-> header(m.store)]

\* ImmutableMap::load(header, store)
load_map(kind, map_header, file) ==
    [st |-> "Built", hasher |-> map_header.hasher, keys |-> map_header.keys,
     store |-> load_store(kind, map_header.store_header, file)]

\* the five files that Database::persist writes
header_files(db, dir) ==
    (Path(dir, "headers/doc_meta.header.joie") :> header(db.search.doc_meta))
    @@ (Path(dir, "headers/sentences.header.joie") :> into_header(db.search.sentences))
    @@ (Path(dir, "headers/sentence_index.header.joie") :> into_header(db.search.index))
    @@ (Path(dir, "headers/documents.header.joie") :> into_header(db.documents))
    @@ (Path(dir, "headers/term_map.joie") :> db.term_map)

\* the files that Database::load reads; a missing one is an io::Error
load_reads(dir) ==
    {Path(dir, n) : n \in {"headers/sentence_index.header.joie", "sentences.index.joie",
                           "headers/sentences.header.joie", "sentences.storage.joie",
                           "headers/documents.header.joie", "documents.storage.joie",
                           "headers/doc_meta.header.joie", "documents.fast.joie",
                           "headers/term_map.joie"}}

\* Database::load
load(files, dir) ==
    IF ~(load_reads(dir) \subseteq DOMAIN files) THEN [st |-> "Err"]
    ELSE [st        |-> "Loaded",
          search    |-> [doc_meta  |-> load_store("Simple",
                                           files[Path(dir, "headers/doc_meta.header.joie")],
                                           files[Path(dir, "documents.fast.joie")]),
                         sentences |-> load_map("Rkyv",
                                           files[Path(dir, "headers/sentences.header.joie")],
                                           files[Path(dir, "sentences.storage.joie")]),
                         index     |-> load_map("Multi",
                                           files[Path(dir, "headers/sentence_index.header.joie")],
                                           files[Path(dir, "sentences.index.joie")])],
          documents |-> load_map("Rkyv", files[Path(dir, "headers/documents.header.joie")],
                                         files[Path(dir, "documents.storage.joie")]),
          term_map  |-> files[Path(dir, "headers/term_map.joie")]]

\* Database::get_doc
get_doc(db, doc_id) == get(db.documents, doc_id)

\* what lookups find in an ImmutableMap: the pairs (key, get(key))
Found(m) ==
    [k \in {key \in DOMAIN m.hasher : get(m, key) # NoValue} |-> get(m, k).v]

\* the SearchEngine of a Database as the queries see it: index.get,
\* sentences.get and doc_meta.get_unchecked
engine(db) ==
    [st        |-> "Built",
     index     |-> Found(db.search.index),
     sentences |-> Found(db.search.sentences),
     documents |-> Found(db.documents),
     doc_meta  |-> [i \in 0..(db.search.doc_meta.len - 1) |-> store_get(db.search.doc_meta, i)],
     term_map  |-> db.term_map]

\* the documents of an indexing run: ids that may repeat, one or two lines
\* of text, a metadata value and a payload
PersistDocuments ==
    {[id |-> id, text |-> t, metadata |-> md[1], data |-> md[2]] :
        id \in DocIds,
        t \in {<<"A", " ", "b", " ", "c">>, <<"c", "\n", "a", " ", "b", " ", "c">>},
        md \in {<<0, "p">>, <<1, "q">>}}

\* the seeds of the hash maps' iteration orders and of the hash functions
Seeds == {0, 1, 2}

InitPersist ==
    /\ corpus \in SeqsUpTo(PersistDocuments, MaxDocs)
    /\ builder = NewBuilder /\ added = 0
    /\ database = NoDatabase
    /\ disk = EmptyMap /\ loaded = NoLoad
    /\ request = NoRequest /\ results = EmptyMap /\ map = NoMap /\ lookup = NoLookup /\ id_list = NoList /\ tasks = {} /\ writes = <<>>
    /\ range_input = <<>> /\ collapsed = <<>>
    /\ handle = 0 /\ held = EmptyMap /\ tempdirs = {} /\ update = NoUpdate
    /\ a = None /\ b = None /\ merged = None /\ input = None /\ parsed = None

\* the indexing run adds its next document
AddNext ==
    /\ added < Len(corpus)
    /\ AddDocument(corpus[added + 1])

\* DatabaseBuilder::build_in(dir) once every document is added
BuildInDir(dir, seed) ==
    /\ builder.st = "Open"
    /\ added = Len(corpus)
    /\ database' = build_in_stores(builder, seed)
    /\ disk' = data_files(database', dir) @@ disk
    /\ builder' = [st |-> "Consumed"]
    /\ UNCHANGED <<a, b, merged, input, parsed, added, request, results, map, lookup, corpus, loaded, handle, held, tempdirs, update, range_input, collapsed, id_list, tasks, writes>>

\* Database::persist(dir), which consumes the database; its content stays
\* in `database` as the version that the loaded one is compared with
Persist(dir) ==
    /\ database.st = "Built"
    /\ disk' = header_files(database, dir) @@ disk
    /\ database' = [database EXCEPT !.st = "Persisted"]
    /\ UNCHANGED <<a, b, merged, input, parsed, builder, added, request, results, map, lookup, corpus, loaded, handle, held, tempdirs, update, range_input, collapsed, id_list, tasks, writes>>

\* Database::load(dir)
Load(dir) ==
    /\ loaded.st = "None"
    /\ loaded' = load(disk, dir)
    /\ UNCHANGED <<a, b, merged, input, parsed, builder, added, database, request, results, map, lookup, corpus, disk, handle, held, tempdirs, update, range_input, collapsed, id_list, tasks, writes>>

NextPersist ==
    \/ AddNext
    \/ \E dir \in Dirs, seed \in Seeds : BuildInDir(dir, seed)
    \/ \E dir \in Dirs : Persist(dir)
    \/ \E dir \in Dirs : Load(dir)

SpecPersist == InitPersist /\ [][NextPersist]_vars

----------------------------------------------------------------------------
(* The builder specification: add_document calls with any document id,     *)
(* document 0 included, each recorded in `corpus`, then build_in.          *)

BuilderDocIds == {0, 1, 2}

\* no line, a word twice on one line, two lines, one empty line
BuilderTexts ==
    { <<>>,
      <<"A", " ", "a">>,
      <<"c", "\n", "a", " ", "b">>,
      <<"\n">> }

BuilderDocuments == [id : BuilderDocIds, text : BuilderTexts, metadata : {0}, data : {"data"}]

\* DatabaseBuilder::add_document, the call recorded
AddToBuilder(doc) ==
    /\ builder.st = "Open"
    /\ added < MaxDocs
    /\ builder' = add_document(builder, doc)
    /\ added' = added + 1
    /\ corpus' = Append(corpus, doc)
    /\ UNCHANGED <<a, b, merged, input, parsed, database, request, results, map, lookup, disk, loaded, handle, held, tempdirs, update, range_input, collapsed, id_list, tasks, writes>>

NextBuilder ==
    \/ \E doc \in BuilderDocuments : AddToBuilder(doc)
    \/ BuildIn

SpecBuilder == Init /\ [][NextBuilder]_vars

----------------------------------------------------------------------------
(* satt: the shared handle Arc<ArcSwap<DatabaseHandle>>.  A DatabaseHandle *)
(* owns its Database and the TempDir that the database was built in; a     *)
(* version is dropped, and its directory removed with it, when neither the *)
(* ArcSwap nor a guard of a reader refers to it.                           *)

MaxVersions == 3

Readers == {"r1", "r2", "r3"}

NoVersion == 0

\* the references to version v: the ArcSwap's own and the guards
StrongCount_NoGuards(v, current, guards) ==
    IF v = current THEN 1 ELSE 0

StrongCount(v, current, guards) ==
    (IF v = current THEN 1 ELSE 0) + Cardinality({r \in DOMAIN guards : guards[r] = v})

\* Drop of the last reference to a DatabaseHandle: TempDir::drop removes
\* the directory
DropUnreferenced(dirs, current, guards, building) ==
    {v \in dirs : v = building \/ StrongCount(v, current, guards) > 0}

\* main: ArcSwap::from_pointee(blank_db("./database"))
InitSwap ==
    /\ handle = 1 /\ tempdirs = {1}
    /\ held = [r \in Readers |-> NoVersion]
    /\ update = [pc |-> "idle", version |-> 1]
    /\ a = None /\ b = None /\ merged = None /\ input = None /\ parsed = None
    /\ builder = None /\ added = 0 /\ database = None /\ request = None /\ results = None /\ id_list = NoList /\ tasks = {} /\ writes = <<>>
    /\ range_input = <<>> /\ collapsed = <<>>
    /\ map = NoMap /\ lookup = NoLookup
    /\ corpus = <<>> /\ disk = EmptyMap /\ loaded = NoLoad

\* update_database up to build_in: TempDir::new_in(db_dir) and the build
StartUpdate ==
    /\ update.pc = "idle"
    /\ update.version < MaxVersions
    /\ update' = [pc |-> "built", version |-> update.version + 1]
    /\ tempdirs' = tempdirs \cup {update.version + 1}
    /\ UNCHANGED <<a, b, merged, input, parsed, builder, added, database, request, results, map, lookup, corpus, disk, loaded, handle, held, range_input, collapsed, id_list, tasks, writes>>

\* update_database returns an error before the swap: temp_dir is dropped
FailUpdate ==
    /\ update.pc = "built"
    /\ update' = [update EXCEPT !.pc = "idle"]
    /\ tempdirs' = DropUnreferenced(tempdirs, handle, held, NoVersion)
    /\ UNCHANGED <<a, b, merged, input, parsed, builder, added, database, request, results, map, lookup, corpus, disk, loaded, handle, held, range_input, collapsed, id_list, tasks, writes>>

\* db.swap(Arc::new(handle)); the Arc of the old version that swap returns
\* is dropped at once
Swap ==
    /\ update.pc = "built"
    /\ handle' = update.version
    /\ update' = [update EXCEPT !.pc = "idle"]
    /\ tempdirs' = DropUnreferenced(tempdirs, handle', held, NoVersion)
    /\ UNCHANGED <<a, b, merged, input, parsed, builder, added, database, request, results, map, lookup, corpus, disk, loaded, held, range_input, collapsed, id_list, tasks, writes>>

\* the search handler: let db = db.load()
ReaderLoad(r) ==
    /\ held[r] = NoVersion
    /\ held' = [held EXCEPT ![r] = handle]
    /\ UNCHANGED <<a, b, merged, input, parsed, builder, added, database, request, results, map, lookup, corpus, disk, loaded, handle, tempdirs, update, range_input, collapsed, id_list, tasks, writes>>

\* the version whose temp_dir update_database holds, if it holds one
Building(u) ==
    IF u.pc = "built" THEN u.version
    ELSE IF "building" \in DOMAIN u THEN u.building
    ELSE NoVersion

\* the search handler returns: the guard is dropped
ReaderDrop(r) ==
    /\ held[r] # NoVersion
    /\ held' = [held EXCEPT ![r] = NoVersion]
    /\ tempdirs' = DropUnreferenced(tempdirs, handle, held', Building(update))
    /\ UNCHANGED <<a, b, merged, input, parsed, builder, added, database, request, results, map, lookup, corpus, disk, loaded, handle, update, range_input, collapsed, id_list, tasks, writes>>

NextSwap ==
    \/ StartUpdate
    \/ FailUpdate
    \/ Swap
    \/ \E r \in Readers : ReaderLoad(r)
    \/ \E r \in Readers : ReaderDrop(r)

SpecSwap == InitSwap /\ [][NextSwap]_vars

----------------------------------------------------------------------------
(* The combinator specification: a query string with an or or an AND at    *)
(* its top is lowered by Expression::parse and find_sentence_ids is called *)
(* on the query, as SearchEngine::query calls it.                          *)

WordAND == <<"A", "N", "D">>
WordOr == <<"o", "r">>

CombineDocuments ==
    {[id |-> id, text |-> t, metadata |-> id - 1, data |-> "data"] :
        id \in DocIds,
        t \in {<<"A", " ", "b", " ", "c">>, <<"c", "\n", "a", " ", "b", " ", "c">>, <<"a", " ", "a">>}}

CombineQueries ==
    {Join(<<WordA, WordOr, <<"b", " ", "c">>>>, <<" ">>),
     Join(<<<<"a", " ", "b">>, WordOr, WordC, WordOr, WordA>>, <<" ">>),
     Join(<<<<"(">>, WordA, WordAND, WordB, <<")">>, WordOr, WordC>>, <<" ">>),
     Join(<<WordA, WordOr, WordB, WordOr, WordC>>, <<" ">>),
     Join(<<<<"(">>, WordA, WordOr, WordB, <<")">>, WordAND, WordC>>, <<" ">>),
     Join(<<<<"(">>, WordA, WordOr, WordA, <<")">>, WordAND, WordA>>, <<" ">>),
     Join(<<WordA, WordAND, WordB, WordAND, WordC>>, <<" ">>),
     Join(<<<<"a", " ", "b">>, WordAND, <<"(">>, WordC, WordOr, WordA, <<")">>>>, <<" ">>)}

CombineRequests ==
    [st : {"Some"}, kind : {"Advanced"}, query : CombineQueries, filter : DocFilters,
     optimize : BOOLEAN]

\* Database::parse_query, then the first statement of SearchEngine::query
FindSentenceIds ==
    /\ request.st = "Some"
    /\ "ids" \notin DOMAIN results
    /\ LET q == parse(parse_expression(request.query).v, database.term_map,
                      request.filter, request.optimize)
       IN  results' = ("ids" :> [query |-> q, found |-> find_sentence_ids(database, q, "TopLevel")])
                          @@ results
    /\ UNCHANGED <<a, b, merged, input, parsed, builder, added, database, request, map, lookup, corpus, disk, loaded, handle, held, tempdirs, update, range_input, collapsed, id_list, tasks, writes>>

NextCombine ==
    \/ \E doc \in CombineDocuments : AddDocument(doc)
    \/ BuildIn
    \/ \E req \in CombineRequests : Receive(req)
    \/ FindSentenceIds

SpecCombine == Init /\ [][NextCombine]_vars

----------------------------------------------------------------------------
(* The growth specification: documents are added to a builder, and after   *)
(* an add_document call a phrase is put to the database built from the     *)
(* builder as it was before the call and to the one built from it now.     *)

GrowDocuments ==
    {[id |-> id, text |-> t, metadata |-> 0, data |-> "data"] :
        id \in DocIds,
        t \in {<<"a", " ", "b">>, <<"c", "\n", "A", " ", "b", " ", "c">>, <<"b", " ", "a">>}}

\* two words, one word, no word, a blank
GrowPhrases == {<<"a", " ", "b">>, <<"B">>, <<>>, <<" ">>}

\* the builder after the first k recorded add_document calls
RECURSIVE Replay(_, _)
Replay(docs, k) == IF k = 0 THEN NewBuilder ELSE add_document(Replay(docs, k - 1), docs[k])

\* build_in, which consumes the builder, and phrase_query(p, ()) on the
\* database; the same on a builder given every document but the last
CountBeforeAndAfter(p) ==
    /\ builder.st = "Open"
    /\ Len(corpus) >= 1
    /\ request.st = "None"
    /\ request' = [st |-> "Some", kind |-> "Phrase", query |-> p, filter |-> UnitFilter]
    /\ database' = build_in(builder)
    /\ builder' = [st |-> "Consumed"]
    /\ results' = ("before" :> phrase_search(build_in(Replay(corpus, Len(corpus) - 1)), p, UnitFilter))
                  @@ ("after" :> phrase_search(database', p, UnitFilter))
    /\ UNCHANGED <<a, b, merged, input, parsed, added, map, lookup, corpus, disk, loaded, handle, held, tempdirs, update, range_input, collapsed, id_list, tasks, writes>>

NextGrow ==
    \/ \E doc \in GrowDocuments : AddToBuilder(doc)
    \/ \E p \in GrowPhrases : CountBeforeAndAfter(p)

SpecGrow == Init /\ [][NextGrow]_vars

----------------------------------------------------------------------------
(* The range specification: a list of ranges sorted by start is drawn and  *)
(* collapse_overlapped_ranges is applied to it, then to what it returned.  *)

MaxPosition == 3

MaxRanges == 3

\* SentenceRange { start, end } with start <= end
RangePool == {SentenceRange(s, e) : s \in 0..MaxPosition, e \in 0..MaxPosition} \cap
             {r \in [start : 0..MaxPosition, end : 0..MaxPosition] : r.start <= r.end}

SortedByStart(rs) == \A i \in 1..(Len(rs) - 1) : rs[i].start <= rs[i + 1].start

InitRanges ==
    /\ range_input \in {rs \in SeqsUpTo(RangePool, MaxRanges) : SortedByStart(rs)}
    /\ collapsed = <<>>
    /\ a = None /\ b = None /\ merged = None /\ input = None /\ parsed = None
    /\ builder = None /\ added = 0 /\ database = None /\ request = None /\ results = None /\ id_list = NoList /\ tasks = {} /\ writes = <<>>
    /\ map = NoMap /\ lookup = NoLookup
    /\ corpus = <<>> /\ disk = EmptyMap /\ loaded = NoLoad
    /\ handle = 0 /\ held = EmptyMap /\ tempdirs = {} /\ update = NoUpdate

\* collapse_overlapped_ranges on the list, then on the list that it returned
Collapse ==
    /\ Len(collapsed) < 2
    /\ collapsed' = Append(collapsed,
                           collapse_overlapped_ranges(IF collapsed = <<>> THEN range_input
                                                      ELSE collapsed[Len(collapsed)]))
    /\ UNCHANGED <<a, b, merged, input, parsed, builder, added, database, request, results, map, lookup, corpus, disk, loaded, handle, held, tempdirs, update, range_input, id_list, tasks, writes>>

NextRanges == Collapse

SpecRanges == InitRanges /\ [][NextRanges]_vars

----------------------------------------------------------------------------
(* The union specification: a query string with an or at its top is        *)
(* lowered to a UnionQuery, and SearchEngine::query is run on the union    *)
(* and on each of its sub-queries on its own.                              *)

UnionQueries ==
    {Join(<<WordA, WordOr, <<"b", " ", "c">>>>, <<" ">>),
     Join(<<<<"a", " ", "b">>, WordOr, WordC, WordOr, WordA>>, <<" ">>),
     Join(<<<<"(">>, WordA, WordAND, WordB, <<")">>, WordOr, WordC>>, <<" ">>),
     Join(<<WordA, WordOr, WordB, WordOr, WordC>>, <<" ">>),
     Join(<<<<"(">>, WordA, WordAND, <<"b", " ", "c">>, <<")">>, WordOr, <<"c", " ", "a">>>>, <<" ">>)}

UnionRequests ==
    [st : {"Some"}, kind : {"Advanced"}, query : UnionQueries, filter : DocFilters,
     optimize : BOOLEAN]

\* Database::parse_query, then SearchEngine::query on the query and on each
\* of the queries that it holds
QueryUnionAndParts ==
    /\ request.st = "Some"
    /\ "union" \notin DOMAIN results
    /\ LET q == parse(parse_expression(request.query).v, database.term_map,
                      request.filter, request.optimize)
       IN  /\ q.kind = "Union"
           /\ results' = ("union" :> [query |-> q,
                                      whole |-> query(database, q),
                                      parts |-> [k \in 1..Len(q.queries) |->
                                                    query(database, q.queries[k])]])
                             @@ results
    /\ UNCHANGED <<a, b, merged, input, parsed, builder, added, database, request, map, lookup, corpus, disk, loaded, handle, held, tempdirs, update, range_input, collapsed, id_list, tasks, writes>>

NextUnion ==
    \/ \E doc \in CombineDocuments : AddDocument(doc)
    \/ BuildIn
    \/ \E req \in UnionRequests : Receive(req)
    \/ QueryUnionAndParts

SpecUnion == Init /\ [][NextUnion]_vars

----------------------------------------------------------------------------
(* The retain specification: SentenceIdList::retain runs its closure over  *)
(* the slots of a list with par_iter_mut().for_each, so every slot is      *)
(* visited once, by some thread, in an order that the scheduler chooses.   *)
(* The list is then iterated.                                              *)

MaxSlots == 3

RetainIdPool == {ZERO, SentenceId(1, 0), SentenceId(1, 1), SentenceId(2, 0)}

\* does the closure of retain get called for the slot: is_valid() && ...
keep_called(slot) == is_valid(slot)

\* the closure of for_each with the slot's value negated on the wrong side
retain_slot_Negated(slot, keep) ==
    IF is_valid(slot) /\ slot \in keep THEN ZERO ELSE slot

\* the closure of for_each: what it leaves in the slot
retain_slot(slot, keep) ==
    IF is_valid(slot) /\ slot \notin keep THEN ZERO ELSE slot

\* a list, the closure given as the set of ids for which it returns true,
\* and the call not started
InitRetain ==
    /\ \E l \in SeqsUpTo(RetainIdPool, MaxSlots), k \in SUBSET RetainIdPool :
           id_list = [st |-> "List", ids |-> l, before |-> l, keep |-> k,
                      todo |-> {}, asked |-> {}, iterated |-> <<>>]
    /\ a = None /\ b = None /\ merged = None
    /\ input = None /\ parsed = None
    /\ builder = None /\ added = 0 /\ database = None /\ request = None /\ results = None /\ map = NoMap /\ lookup = NoLookup
    /\ range_input = <<>> /\ collapsed = <<>>
    /\ corpus = <<>> /\ disk = EmptyMap /\ loaded = NoLoad
    /\ handle = 0 /\ held = EmptyMap /\ tempdirs = {} /\ update = NoUpdate
    /\ tasks = {} /\ writes = <<>>

\* SentenceIdList::retain is called: par_iter_mut() hands out every slot
RetainCall ==
    /\ id_list.st = "List"
    /\ id_list' = [id_list EXCEPT !.st = "Retaining", !.todo = DOMAIN id_list.ids]
    /\ UNCHANGED <<a, b, merged, input, parsed, builder, added, database, request, results, map, lookup, corpus, disk, loaded, handle, held, tempdirs, update, range_input, collapsed, tasks, writes>>

\* some thread runs the closure of for_each on slot i
RetainSlot(i) ==
    /\ id_list.st = "Retaining"
    /\ i \in id_list.todo
    /\ id_list' = [id_list EXCEPT
                      !.ids[i] = retain_slot(id_list.ids[i], id_list.keep),
                      !.asked = IF keep_called(id_list.ids[i]) THEN @ \cup {i} ELSE @,
                      !.todo = @ \ {i}]
    /\ UNCHANGED <<a, b, merged, input, parsed, builder, added, database, request, results, map, lookup, corpus, disk, loaded, handle, held, tempdirs, update, range_input, collapsed, tasks, writes>>

\* for_each returns when every slot was visited
RetainReturn ==
    /\ id_list.st = "Retaining"
    /\ id_list.todo = {}
    /\ id_list' = [id_list EXCEPT !.st = "Retained"]
    /\ UNCHANGED <<a, b, merged, input, parsed, builder, added, database, request, results, map, lookup, corpus, disk, loaded, handle, held, tempdirs, update, range_input, collapsed, tasks, writes>>

\* SentenceIdList::into_iter, run to its end
IterateList ==
    /\ id_list.st = "Retained"
    /\ id_list' = [id_list EXCEPT !.st = "Iterated", !.iterated = IterIds(id_list.ids)]
    /\ UNCHANGED <<a, b, merged, input, parsed, builder, added, database, request, results, map, lookup, corpus, disk, loaded, handle, held, tempdirs, update, range_input, collapsed, tasks, writes>>

NextRetain ==
    \/ RetainCall
    \/ \E i \in 1..MaxSlots : RetainSlot(i)
    \/ RetainReturn
    \/ IterateList

SpecRetain == InitRetain /\ [][NextRetain]_vars

----------------------------------------------------------------------------
(* The highlights specification: the results of a search are rendered      *)
(* with SearchResult::highlights, as the search handler does.              *)

Normal(text) == [part |-> "Normal", text |-> text]
Highlight(text) == [part |-> "Highlight", text |-> text]

\* &text[from..to], offsets counted from 0
Slice(text, from, to) == SubSeq(text, from + 1, to)

\* the loop of highlight_by_ranges over ranges[k..]
RECURSIVE HighlightLoop(_, _, _, _)
HighlightLoop(ranges, text, cursor, k) ==
    IF k > Len(ranges)
    THEN (IF cursor < Len(text) THEN <<Normal(Slice(text, cursor, Len(text)))>> ELSE <<>>)
    ELSE (IF cursor < ranges[k].start
          THEN <<Normal(Slice(text, cursor, ranges[k].start))>>
          ELSE <<>>)
         \o <<Highlight(Slice(text, ranges[k].start, ranges[k].end))>>
         \o HighlightLoop(ranges, text, ranges[k].end, k + 1)

highlight_by_ranges(ranges, text) == HighlightLoop(ranges, text, 0, 1)

\* SearchResult::highlights
highlights(db, result) == highlight_by_ranges(result.highlighted_parts, db.sentences[result.id].text)

\* highlights() on each result of the search
RenderHighlights ==
    /\ "highlighted" \in DOMAIN results
    /\ "rendered" \notin DOMAIN results
    /\ results' = ("rendered" :> [k \in 1..Len(results["highlighted"].yielded) |->
                                     highlights(database, results["highlighted"].yielded[k])])
                      @@ results
    /\ UNCHANGED <<a, b, merged, input, parsed, builder, added, database, request, map, lookup, corpus, disk, loaded, handle, held, tempdirs, update, range_input, collapsed, id_list, tasks, writes>>

NextHighlights ==
    \/ \E doc \in Documents : AddDocument(doc)
    \/ BuildIn
    \/ \E req \in KeywordRequests : Receive(req)
    \/ SearchHighlighted
    \/ RenderHighlights

SpecHighlights == Init /\ [][NextHighlights]_vars

----------------------------------------------------------------------------
(* The update specification: update_database_periodically runs             *)
(* update_database at every tick of its interval.  update_database is a    *)
(* sequence of statements, each but the swap ending in `?`, so each of     *)
(* them can return the error that ends the call.                           *)

MaxReports == 2

\* the statements of update_database in the order of a swap made before
\* the build
Stages_SwapBeforeBuild ==
    <<"download", "archive", "seasons", "episodes", "tempdir", "swap", "build">>

\* the statements of update_database: reqwest::get, ZipArchive::new,
\* serde_json::from_reader, by_name and read_to_string of the episodes,
\* TempDir::new_in, build_in, db.swap
Stages ==
    <<"download", "archive", "seasons", "episodes", "tempdir", "build", "swap">>

\* the statements that end in `?`
Fallible == {"download", "archive", "seasons", "episodes", "tempdir", "build"}

\* where update_database is after the statement at pc returned Ok
StageAfter(pc) ==
    LET k == CHOOSE i \in 1..Len(Stages) : Stages[i] = pc
    IN  IF k = Len(Stages) THEN "idle" ELSE Stages[k + 1]

\* main: ArcSwap::from_pointee(blank_db("./database")), then
\* update_database_periodically is spawned
InitUpdate ==
    /\ handle = 1 /\ tempdirs = {1}
    /\ held = [r \in Readers |-> NoVersion]
    /\ update = [pc |-> "idle", version |-> 1, building |-> NoVersion, active |-> 1, reported |-> 0]
    /\ a = None /\ b = None /\ merged = None /\ input = None /\ parsed = None
    /\ builder = None /\ added = 0 /\ database = None /\ request = None /\ results = None /\ id_list = NoList /\ tasks = {} /\ writes = <<>>
    /\ range_input = <<>> /\ collapsed = <<>>
    /\ map = NoMap /\ lookup = NoLookup
    /\ corpus = <<>> /\ disk = EmptyMap /\ loaded = NoLoad

\* interval.tick().await returns and update_database is called
Tick ==
    /\ update.pc = "idle"
    /\ update.version < MaxVersions
    /\ update.reported < MaxReports
    /\ update' = [update EXCEPT !.pc = Stages[1], !.active = handle]
    /\ UNCHANGED <<a, b, merged, input, parsed, builder, added, database, request, results, map, lookup, corpus, disk, loaded, handle, held, tempdirs, range_input, collapsed, id_list, tasks, writes>>

\* the statement at update.pc returns Ok: TempDir::new_in creates the
\* directory of the next version, db.swap stores the handle and drops the
\* Arc of the old one
StageOk ==
    /\ update.pc \in Range(Stages)
    /\ CASE update.pc = "tempdir" ->
              /\ update' = [update EXCEPT !.pc = StageAfter(update.pc),
                                          !.version = @ + 1, !.building = update.version + 1]
              /\ tempdirs' = tempdirs \cup {update.version + 1}
              /\ handle' = handle
         [] update.pc = "swap" ->
              /\ update' = [update EXCEPT !.pc = StageAfter(update.pc), !.building = NoVersion]
              /\ handle' = update.building
              /\ tempdirs' = DropUnreferenced(tempdirs, update.building, held, NoVersion)
         [] OTHER ->
              /\ update' = [update EXCEPT !.pc = StageAfter(update.pc)]
              /\ UNCHANGED <<handle, tempdirs>>
    /\ UNCHANGED <<a, b, merged, input, parsed, builder, added, database, request, results, map, lookup, corpus, disk, loaded, held, range_input, collapsed, id_list, tasks, writes>>

\* the statement at update.pc returns Err and `?` returns it from
\* update_database: temp_dir, if it was created, is dropped
StageErr ==
    /\ update.pc \in Fallible
    /\ update' = [update EXCEPT !.pc = "failed", !.building = NoVersion]
    /\ tempdirs' = DropUnreferenced(tempdirs, handle, held, NoVersion)
    /\ UNCHANGED <<a, b, merged, input, parsed, builder, added, database, request, results, map, lookup, corpus, disk, loaded, handle, held, range_input, collapsed, id_list, tasks, writes>>

\* println!("error during db update: {e}"), and the loop goes on
ReportError ==
    /\ update.pc = "failed"
    /\ update' = [update EXCEPT !.pc = "idle", !.reported = @ + 1]
    /\ UNCHANGED <<a, b, merged, input, parsed, builder, added, database, request, results, map, lookup, corpus, disk, loaded, handle, held, tempdirs, range_input, collapsed, id_list, tasks, writes>>

NextUpdate ==
    \/ Tick
    \/ StageOk
    \/ StageErr
    \/ ReportError
    \/ \E r \in Readers : ReaderLoad(r)
    \/ \E r \in Readers : ReaderDrop(r)

SpecUpdate == InitUpdate /\ [][NextUpdate]_vars

----------------------------------------------------------------------------
(* The parallel merge specification: merge_slices calls par_merge, whose   *)
(* calls above the threshold write their pivot and hand their two halves   *)
(* to rayon::join.  A call that was started runs when the scheduler picks  *)
(* it, so the calls of different pivots run in any order.                  *)

\* a call of par_merge: the two slices and the place of its output slice
\* in the buffer; path names the call by the halves that lead to it
Task(path, x, y, at) == [path |-> path, x |-> x, y |-> y, at |-> at]

\* the indices of the buffer that make up the output slice of a call
Region(t) == (t.at + 1)..(t.at + Len(t.x) + Len(t.y))

\* the two calls with o_right taken from the pivot's own slot
split_RightAtPivot(path, big, small, pivot, s, at) ==
    {Task(Append(path, "l"), SubSeq(big, 1, pivot), SubSeq(small, 1, s), at),
     Task(Append(path, "r"), SubSeq(big, pivot + 2, Len(big)), SubSeq(small, s + 1, Len(small)),
          at + pivot + s)}

\* split_unchecked, split_first and split_unchecked_mut: the two calls that
\* rayon::join gets, o_left being output[..t] and o_right output[t + 1..]
split(path, big, small, pivot, s, at) ==
    {Task(Append(path, "l"), SubSeq(big, 1, pivot), SubSeq(small, 1, s), at),
     Task(Append(path, "r"), SubSeq(big, pivot + 2, Len(big)), SubSeq(small, s + 1, Len(small)),
          at + pivot + s + 1)}

\* the buffer after the values vs were written from index at + 1 on
WriteAt(buffer, at, vs) ==
    <<>> \o [i \in DOMAIN buffer |-> IF at < i /\ i <= at + Len(vs) THEN vs[i - at] ELSE buffer[i]]

\* the record of the writes after a call wrote n slots from index at + 1 on
NoteWrites(log, at, n, path) ==
    [i \in DOMAIN log |-> IF at < i /\ i <= at + n THEN Append(log[i], path) ELSE log[i]]

InitParMerge ==
    /\ a \in SortedIdLists
    /\ b \in SortedIdLists
    /\ merged = None
    /\ tasks = {} /\ writes = <<>>
    /\ input = None /\ parsed = None
    /\ builder = None /\ added = 0 /\ database = None /\ request = None /\ results = None /\ id_list = NoList
    /\ range_input = <<>> /\ collapsed = <<>>
    /\ map = NoMap /\ lookup = NoLookup
    /\ corpus = <<>> /\ disk = EmptyMap /\ loaded = NoLoad
    /\ handle = 0 /\ held = EmptyMap /\ tempdirs = {} /\ update = NoUpdate

\* SentenceIdList::merge_slices: the zeroed buffer and the first call
MergeSlicesCall ==
    /\ merged = None
    /\ merged' = <<>> \o [i \in 1..(Len(a) + Len(b)) |-> ZERO]
    /\ writes' = [i \in 1..(Len(a) + Len(b)) |-> <<>>]
    /\ tasks' = {Task(<<>>, a, b, 0)}
    /\ UNCHANGED <<a, b, input, parsed, builder, added, database, request, results, map, lookup, corpus, disk, loaded, handle, held, tempdirs, update, range_input, collapsed, id_list>>

\* the body of par_merge, run for one of the calls that were started
ParMergeRun ==
    /\ \E t \in tasks :
           LET big   == IF Len(t.x) >= Len(t.y) THEN t.x ELSE t.y
               small == IF Len(t.x) >= Len(t.y) THEN t.y ELSE t.x
               pivot == Len(big) \div 2
           IN  IF Len(big) = 0
               THEN /\ tasks' = tasks \ {t}
                    /\ UNCHANGED <<merged, writes>>
               ELSE IF Len(big) < PARALLEL_MERGE_THRESH
               THEN /\ merged' = WriteAt(merged, t.at, scalar_merge(big, small))
                    /\ writes' = NoteWrites(writes, t.at, Len(big) + Len(small), t.path)
                    /\ tasks' = tasks \ {t}
               ELSE \E s \in binary_search(small, big[pivot + 1]) :
                    /\ merged' = WriteAt(merged, t.at + pivot + s, <<big[pivot + 1]>>)
                    /\ writes' = NoteWrites(writes, t.at + pivot + s, 1, t.path)
                    /\ tasks' = (tasks \ {t}) \cup split(t.path, big, small, pivot, s, t.at)
    /\ UNCHANGED <<a, b, input, parsed, builder, added, database, request, results, map, lookup, corpus, disk, loaded, handle, held, tempdirs, update, range_input, collapsed, id_list>>

NextParMerge ==
    \/ MergeSlicesCall
    \/ ParMergeRun

SpecParMerge == InitParMerge /\ [][NextParMerge]_vars

----------------------------------------------------------------------------
(* Claims about queries, checked under Spec.                               *)

\* the sentence ids of the results a call yielded, in order
IdsOf(answer) == [k \in 1..Len(answer.yielded) |-> answer.yielded[k].id]

BothModesRan == {"optimized", "plain"} \subseteq DOMAIN results

\* C1: for a query string that parses, the query lowered with optimize=true
\* yields the same set of sentence ids, and as many results, as the query
\* lowered with optimize=false (stated for the runs that ended without a
\* panic).
C1_OptimizeYieldsSameResults ==
    (/\ BothModesRan
     /\ ~results["optimized"].panicked /\ ~results["plain"].panicked)
    => /\ Range(IdsOf(results["optimized"])) = Range(IdsOf(results["plain"]))
       /\ Len(results["optimized"].yielded) = Len(results["plain"].yielded)

\* C3: no query returned by phrase_query or parse_query panics when it is
\* run, whatever the input string is.
C3_QueriesNeverPanic == \A m \in DOMAIN results : ~results[m].panicked

\* the results of `answer` that belong to documents the filter accepts
Restricted(db, df, answer) ==
    SelectSeq(answer.yielded, LAMBDA r : filter_document(db, df, r.id))

\* the same request served with the trivial filter
Unfiltered(m) ==
    IF m = "phrase" THEN phrase_search(database, request.query, UnitFilter)
    ELSE advanced_search(database, request.query, UnitFilter, m = "optimized")

\* C4: the results of a query built with a document filter DF are exactly
\* the results of the same query built with the trivial filter, restricted to
\* the sentences of documents that DF accepts (stated for the runs that ended
\* without a panic).
C4_FilteredIsRestrictedUnfiltered ==
    \A m \in DOMAIN results :
        (request.filter.needed /\ ~results[m].panicked /\ ~Unfiltered(m).panicked)
        => results[m].yielded = Restricted(database, request.filter, Unfiltered(m))

\* C5: every query yields its results in ascending (doc, sentence) order:
\* no yielded id is smaller than the one before it.
C5_YieldedAscending == \A m \in DOMAIN results : IsSortedIds(IdsOf(results[m]))

\* C5 witness: an intersection ran and yielded sentences of two documents
C5_Witness ==
    /\ request.st = "Some" /\ request.kind = "Advanced"
    /\ request.query = <<"a", " ", "A", "N", "D", " ", "b">>
    /\ "plain" \in DOMAIN results
    /\ \E i, j \in 1..Len(results["plain"].yielded) :
           IdLess(results["plain"].yielded[i].id, results["plain"].yielded[j].id)
           /\ results["plain"].yielded[i].id[1] # results["plain"].yielded[j].id[1]

\* C22: no sentence id is yielded more than once by Database::query, for
\* any query tree and either optimize setting, an intersection over a
\* two-keyword KeywordsQuery that skipped its de-duplication included.
C22_NoIdYieldedTwice ==
    \A m \in DOMAIN results :
        \A i, j \in 1..Len(results[m].yielded) :
            results[m].yielded[i].id = results[m].yielded[j].id => i = j

\* the ids of the results of an outcome of SearchEngine::query
YieldedIds(out) == {out.yielded[k].id : k \in 1..Len(out.yielded)}

\* C23: a sentence is yielded by Database::query for UnionQuery(Q1, ..., Qn)
\* if and only if it is yielded by Database::query for at least one Qi on
\* its own, whatever kind each sub-query is.
C23_UnionYieldsWhatSomePartYields ==
    "union" \in DOMAIN results =>
        LET u == results["union"]
        IN  YieldedIds(u.whole) = UNION {YieldedIds(u.parts[k]) : k \in 1..Len(u.parts)}

\* the text of the phrase of a request that is a single phrase query
PhraseOf(req) ==
    IF req.kind = "Phrase" THEN Some(req.query)
    ELSE LET e == parse_expression(req.query)
         IN  IF e # NoQuery /\ e.v.tag = "Literal" THEN Some(e.v.v) ELSE NoQuery

\* some word of the text is not in the term map
HasUnknownWord(kv, text) ==
    \E w \in Range(unicode_word_indices(text)) : stem(to_lowercase(w.word)) \notin DOMAIN kv

\* C8: a phrase query with a word that the term map does not know (which
\* tokenizes to term id 0) yields no result and does not panic, whatever its
\* other words are.
C8_UnknownWordYieldsNothing ==
    \A m \in DOMAIN results :
        (/\ PhraseOf(request).st = "Some"
         /\ HasUnknownWord(database.term_map, PhraseOf(request).v))
        => results[m].yielded = <<>> /\ ~results[m].panicked

\* C8 witness: the phrase `a b` ran on a database that knows a but not b and
\* that has a sentence with a
C8_Witness ==
    /\ request.st = "Some" /\ request.kind = "Phrase"
    /\ tokenize_phrase(database.term_map, request.query) = <<1, 0>>
    /\ "phrase" \in DOMAIN results
    /\ Posting(database, 1) # <<>>


----------------------------------------------------------------------------
(* Claims about phrase matching, checked under SpecPhrase.                 *)

\* p occurs in the term sequence ts as a run of whole terms
ContainsRun(ts, p) ==
    \E i \in 0..(Len(ts) - Len(p)) : \A j \in 1..Len(p) : ts[i + j] = p[j]

\* C2: with the trivial filter, a phrase query for a non-empty phrase of
\* known terms yields a sentence if and only if the sentence's terms contain
\* the phrase as a contiguous run of whole terms; bytes of the phrase found
\* across term boundaries do not count.
C2_YieldedIffContiguousRun ==
    ("phrase" \in DOMAIN results /\ ~request.filter.needed)
    => LET p == tokenize_phrase(database.term_map, request.query)
       IN  (p # <<>> /\ 0 \notin Range(p) /\ ~results["phrase"].panicked)
           => \A id \in DOMAIN database.sentences :
                  (id \in Range(IdsOf(results["phrase"])))
                  <=> ContainsRun(database.sentences[id].terms, p)

----------------------------------------------------------------------------
(* Claims about keyword queries, checked under SpecKeywords.               *)

\* the query string is `x OR y` for two literals of one word each
IsKeywordPair(text) ==
    LET e == parse_expression(text)
    IN  /\ e # NoQuery
        /\ e.v.tag = "Or"
        /\ e.v.l.tag = "Literal" /\ Len(unicode_word_indices(e.v.l.v)) = 1
        /\ e.v.r.tag = "Literal" /\ Len(unicode_word_indices(e.v.r.v)) = 1

\* the word of a literal of one word
WordOf(literal) == unicode_word_indices(literal.v)[1].word

\* the indices (from 1) of the tokens of a sentence whose word, read from
\* the sentence's text, is one of `words` up to case and stemming
Occurrences(sentence, words) ==
    {i \in 1..Len(sentence.tokens) :
        \E w \in words :
            stem(to_lowercase(SubSeq(sentence.text, sentence.tokens[i].start + 1,
                                     sentence.tokens[i].end)))
            = stem(to_lowercase(w))}

\* the ranges of the tokens idx, one per token, in the order of the text
TokenRanges(sentence, idx) ==
    LET order == Ascending(idx)
    IN  [j \in 1..Len(order) |->
            SentenceRange(sentence.tokens[order[j]].start, sentence.tokens[order[j]].end)]

\* C11: for two single-word literals x and y, `x OR y` with optimize=true
\* compiles to a KeywordsQuery over [term(x), term(y)], and each result of
\* the query is a sentence containing x or y whose highlighted ranges are
\* exactly the token ranges of the occurrences of x and y in that sentence,
\* one range per occurrence.
C11_KeywordsHighlightOccurrences ==
    ("highlighted" \in DOMAIN results /\ IsKeywordPair(request.query))
    => LET e  == parse_expression(request.query).v
           kv == database.term_map
           x  == WordOf(e.l)
           y  == WordOf(e.r)
       IN  /\ parse(e, kv, request.filter, TRUE)
                = KeywordsQuery(<<term(kv, x), term(kv, y)>>, request.filter)
           /\ ~results["highlighted"].panicked
           /\ \A k \in 1..Len(results["highlighted"].yielded) :
                LET r   == results["highlighted"].yielded[k]
                    s   == database.sentences[r.id]
                    occ == Occurrences(s, {x, y})
                IN  occ # {} /\ r.highlighted_parts = TokenRanges(s, occ)

----------------------------------------------------------------------------
(* Claims about ImmutableMap, checked under SpecMap.                       *)

\* C12: for an ImmutableMap built from pairs with distinct keys, get(k)
\* returns the value stored with k for every built key, and None for every
\* key that was not built, even when the hash function sends that key to a
\* valid slot.
C12_GetReturnsBuiltValueOrNone ==
    lookup.st = "Some" =>
        IF lookup.key \in DOMAIN map.pairs
        THEN lookup.got = Some(map.pairs[lookup.key])
        ELSE lookup.got = NoValue

\* C12 witness: a key that was not built, which the hash function sends to
\* the slot of a built key with a non-empty value, has been looked up in a
\* map of two keys
C12_Witness ==
    /\ lookup.st = "Some"
    /\ Cardinality(DOMAIN map.pairs) = 2
    /\ lookup.key \notin DOMAIN map.pairs
    /\ map.hasher[lookup.key] # NoSlot
    /\ store_get(map.store, map.hasher[lookup.key]) # <<>>

----------------------------------------------------------------------------
(* Claims about persistence, checked under SpecPersist.                    *)

\* the builder after the first k documents of the corpus
RECURSIVE BuilderAfter(_)
BuilderAfter(k) == IF k = 0 THEN NewBuilder ELSE add_document(BuilderAfter(k - 1), corpus[k])

\* the sentences that add_document derived from the k-th document
SentencesOf(k) == tokenize_all(BuilderAfter(k - 1).term_map, corpus[k].text).sentences

\* the queries that are put to both versions of the database
RoundTripPhrases == {<<"a", " ", "b">>, <<"c">>, <<"b", " ", "a">>}
RoundTripQueries == {<<"a", " ", "o", "r", " ", "c">>, <<"a", " ", "A", "N", "D", " ", "c">>}

SameAnswers(old, new) ==
    /\ \A p \in RoundTripPhrases, f \in DocFilters :
           phrase_search(new, p, f) = phrase_search(old, p, f)
    /\ \A q \in RoundTripQueries, f \in DocFilters, optimize \in BOOLEAN :
           advanced_search(new, q, f, optimize) = advanced_search(old, q, f, optimize)

LastOfId(k) == \A j \in (k + 1)..Len(corpus) : corpus[j].id # corpus[k].id

----------------------------------------------------------------------------
(* Claims about the builder, checked under SpecBuilder.                    *)

\* the call would create the sentence (0, 0): document 0 with a line of text
CreatesTombstone(doc) == doc.id = 0 /\ lines(doc.text) # <<>>

\* C14: after add_document calls that complete, no key of the sentence store
\* and no element of a posting list is the tombstone (0,0); a call that
\* would create that sentence (document 0 with at least one line) fails
\* instead of storing it.
C14_NoTombstoneStored ==
    /\ builder.st = "Open" =>
           /\ ZERO \notin DOMAIN builder.sentence_map
           /\ \A t \in DOMAIN builder.term_to_sentence : ZERO \notin Range(builder.term_to_sentence[t])
    /\ (\E k \in 1..Len(corpus) : CreatesTombstone(corpus[k])) =>
           /\ builder.st = "Panicked"
           /\ CreatesTombstone(corpus[Len(corpus)])
           /\ database.st = "None"
    /\ builder.st = "Panicked" => CreatesTombstone(corpus[Len(corpus)])

C14_Witness ==
    /\ builder.st = "Panicked"
    /\ Len(corpus) = 2
    /\ corpus[1].id = 0 /\ corpus[1].text = <<>>
    /\ corpus[2].id = 0 /\ corpus[2].text = <<"\n">>

\* s is strictly ascending in (doc_id, sentence_index)
StrictlyAscending(s) == \A i \in 1..(Len(s) - 1) : IdLess(s[i], s[i + 1])

\* C15: in every database produced by build_in each posting list of the
\* inverted index is strictly ascending in (doc_id, sentence_index), so it
\* has no duplicate and no tombstone, also when a term occurs several times
\* in one sentence.
C15_PostingListsStrictlyAscending ==
    database.st = "Built" =>
        \A t \in DOMAIN database.index :
            /\ StrictlyAscending(database.index[t])
            /\ \A i \in 1..Len(database.index[t]) :
                   /\ is_valid(database.index[t][i])
                   /\ Count(database.index[t], database.index[t][i]) = 1

\* a built database whose second document put its word twice on one line
\* below the sentence of the first
C15_Witness ==
    /\ database.st = "Built"
    /\ Len(corpus) = 2
    /\ corpus[1].id = 2 /\ corpus[1].text = <<"c", "\n", "a", " ", "b">>
    /\ corpus[2].id = 1 /\ corpus[2].text = <<"A", " ", "a">>
    /\ database.index[2] = <<SentenceId(1, 0), SentenceId(2, 1)>>

\* the stems of the words of the documents added so far
StemsSeen ==
    UNION {{stem(to_lowercase(w.word)) : w \in Range(unicode_word_indices(corpus[k].text))} :
              k \in 1..Len(corpus)}

\* the term map as it is now: the builder's, or the frozen one
CurrentTerms(bld, db) ==
    IF bld.st = "Open" THEN bld.term_map
    ELSE IF db.st = "Built" THEN db.term_map
    ELSE EmptyMap

\* the assigned ids are exactly 1..M, M the number of stems seen
TermIdsOneToM ==
    (builder.st = "Open" \/ database.st = "Built") =>
        LET kv == CurrentTerms(builder, database)
        IN  /\ DOMAIN kv = StemsSeen
            /\ {kv[t] : t \in DOMAIN kv} = 1..Cardinality(StemsSeen)
            /\ \A s, t \in DOMAIN kv : kv[s] = kv[t] => s = t

\* a step leaves every stem the id that it has
StemKeepsItsId ==
    \A t \in DOMAIN CurrentTerms(builder, database) :
        (builder'.st = "Open" \/ database'.st = "Built") =>
            /\ t \in DOMAIN CurrentTerms(builder', database')
            /\ CurrentTerms(builder', database')[t] = CurrentTerms(builder, database)[t]

\* C16: after any sequence of intern / tokenize calls the set of assigned
\* term ids is exactly 1..M for M the number of distinct stems seen: ids
\* start at 1, 0 is never assigned, the same stem always receives the same
\* id and two stems never share an id.
C16_TermIdsAreOneToM == []TermIdsOneToM /\ [][StemKeepsItsId]_vars

C16_Witness ==
    /\ builder.st = "Open"
    /\ Len(corpus) = 2
    /\ corpus[1].text = <<"A", " ", "a">>
    /\ corpus[2].text = <<"c", "\n", "a", " ", "b">>
    /\ builder.term_map = (<<"a">> :> 1) @@ (<<"c">> :> 2) @@ (<<"b">> :> 3)

----------------------------------------------------------------------------
(* Claims about the shared handle, checked under SpecSwap.                 *)

\* the directory of every version that a reader holds, and of the current
\* one, exists
HeldDirExists ==
    /\ handle \in tempdirs
    /\ \A r \in Readers : held[r] # NoVersion => held[r] \in tempdirs

\* a reader that holds a version keeps it until it drops it
ReaderKeepsVersion ==
    \A r \in Readers : held[r] # NoVersion => held'[r] \in {held[r], NoVersion}

\* a directory is removed only when no reader holds its version and the
\* handle points elsewhere
RemovedOnlyWhenUnheld ==
    \A v \in tempdirs \ tempdirs' :
        /\ v # handle'
        /\ \A r \in Readers : held'[r] # v

\* a reader that loads gets the version last swapped in
LoadSeesCurrent ==
    /\ handle' >= handle
    /\ \A r \in Readers : (held[r] = NoVersion /\ held'[r] # NoVersion) => held'[r] = handle

\* C17: under any interleaving of search requests with a database update a
\* reader that loaded the handle before the swap keeps using that version,
\* whose directory is not removed while the reader holds it; the old
\* directory is removed only after the last holder drops it, and every
\* reader that loads the handle after the swap sees the new version.
C17_ReadersKeepTheirVersion ==
    []HeldDirExists /\ [][ReaderKeepsVersion /\ RemovedOnlyWhenUnheld /\ LoadSeesCurrent]_vars

\* one reader still holds version 1, whose directory exists, after the swap
\* to version 2, which the other reader loaded
C17_Witness ==
    /\ handle = 2
    /\ held["r1"] = 1 /\ held["r2"] = 2
    /\ tempdirs = {1, 2}

----------------------------------------------------------------------------
(* Claims about the combinators, checked under SpecCombine.                *)

\* the non-tombstone ids of a list
ValidIds(ids) == {id \in Range(ids) : is_valid(id)}

\* what the k-th sub-query of q returns to the caller
SubIds(q, k, caller) == find_sentence_ids(database, q.queries[k], caller).ids

IdsFound(kind) == "ids" \in DOMAIN results /\ results["ids"].query.kind = kind

\* C18: UnionQuery.find_sentence_ids returns exactly the set of the
\* non-tombstone ids that its sub-queries return (called with caller =
\* Union), as a list sorted ascending without duplicates and without
\* tombstones.
C18_UnionIsSortedSetOfSubIds ==
    IdsFound("Union") =>
        LET q   == results["ids"].query
            ids == results["ids"].found.ids
        IN  /\ results["ids"].found.ok
            /\ Range(ids) = UNION {ValidIds(SubIds(q, k, "Union")) : k \in 1..Len(q.queries)}
            /\ StrictlyAscending(ids)
            /\ ZERO \notin Range(ids)

\* a union of two ids, one of them returned by both sub-queries, one
\* sub-query returning a tombstone
C18_Witness ==
    /\ IdsFound("Union")
    /\ Len(results["ids"].found.ids) = 2
    /\ LET q == results["ids"].query
       IN  /\ ValidIds(SubIds(q, 1, "Union")) \cap ValidIds(SubIds(q, 2, "Union")) # {}
           /\ \E k \in 1..2 : ZERO \in Range(SubIds(q, k, "Union"))

\* C19: for IntersectingQuery(Q1, Q2) the set of valid ids that
\* find_sentence_ids returns is a subset of the intersection of the valid ids
\* of Q1 and of Q2, and equals it when the document filter is trivial,
\* whichever sub-query returns the shorter list and whether or not the lists
\* hold tombstones or duplicates.
C19_IntersectionOfSubIds ==
    IdsFound("Intersecting") =>
        LET q     == results["ids"].query
            ids   == results["ids"].found.ids
            both  == ValidIds(SubIds(q, 1, "Intersection")) \cap ValidIds(SubIds(q, 2, "Intersection"))
        IN  /\ results["ids"].found.ok
            /\ ValidIds(ids) \subseteq both
            /\ ~request.filter.needed => ValidIds(ids) = both

\* the second sub-query returns the shorter list, the first one a list with
\* a duplicate and an id that the second one lacks
C19_Witness ==
    /\ IdsFound("Intersecting")
    /\ ~request.filter.needed
    /\ LET q  == results["ids"].query
           q1 == SubIds(q, 1, "Intersection")
           q2 == SubIds(q, 2, "Intersection")
       IN  /\ Len(q2) < Len(q1)
           /\ \E id \in Range(q1) : Count(q1, id) > 1
           /\ ValidIds(q1) \ ValidIds(q2) # {}
           /\ ValidIds(results["ids"].found.ids) # {}

\* a sub-query returns a tombstone to the intersection
C19_WitnessTombstone ==
    /\ IdsFound("Intersecting")
    /\ \E k \in 1..2 : ZERO \in Range(SubIds(results["ids"].query, k, "Intersection"))
    /\ ValidIds(results["ids"].found.ids) # {}

----------------------------------------------------------------------------
(* Claims about growth, checked under SpecGrow.                            *)

\* the stems of the words of a string, in order
StemsOf(s) ==
    LET words == unicode_word_indices(s)
    IN  [k \in 1..Len(words) |-> stem(to_lowercase(words[k].word))]

\* the words of p stand next to each other, in order, in ws
HasRun(ws, p) ==
    \E i \in 0..(Len(ws) - Len(p)) : \A j \in 1..Len(p) : ws[i + j] = p[j]

\* the text contains the phrase on a single line
ContainsOnOneLine(text, p) ==
    \E l \in Range(lines(text)) : HasRun(StemsOf(l), StemsOf(p))

LastAdded == corpus[Len(corpus)]

Counted == request.st = "Some" /\ DOMAIN results = {"before", "after"}

\* C20: for any builder state and any phrase p, adding one more document
\* whose text contains p on a single line makes the number of results of
\* phrase_query(p) on the built database at least one greater than on the
\* database built without that document.
C20_AddingDocumentAddsResult ==
    (Counted /\ ContainsOnOneLine(LastAdded.text, request.query)) =>
        Len(results["after"].yielded) >= Len(results["before"].yielded) + 1

\* the document is the first one of its id
FreshId == \A k \in 1..(Len(corpus) - 1) : corpus[k].id # LastAdded.id

\* C20, amended: a phrase of at least one word gains a result when a
\* document of an id not used before, containing it on one line, is added
C20_FreshDocumentAddsResult ==
    (/\ Counted
     /\ ContainsOnOneLine(LastAdded.text, request.query)
     /\ StemsOf(request.query) # <<>>
     /\ FreshId) =>
        Len(results["after"].yielded) >= Len(results["before"].yielded) + 1

\* the phrase had a result before the second document, of another id,
\* brought one more
C20_Witness ==
    /\ Counted
    /\ Len(corpus) = 2 /\ FreshId
    /\ Len(StemsOf(request.query)) = 2
    /\ ContainsOnOneLine(LastAdded.text, request.query)
    /\ Len(results["before"].yielded) = 1
    /\ Len(results["after"].yielded) = 2

----------------------------------------------------------------------------
(* Claims about range collapsing, checked under SpecRanges.                *)

\* C21: range collapsing is idempotent: for every list xs of ranges sorted
\* by start, collapse(collapse(xs)) equals collapse(xs).
C21_CollapseIdempotent ==
    Len(collapsed) = 2 => collapsed[2] = collapsed[1]

\* the positions that the ranges of a list cover
Covered(rs) == UNION {{p \in 0..MaxPosition : rs[i].start <= p /\ p < rs[i].end} : i \in 1..Len(rs)}

\* C27: for every list of ranges sorted by start the collapsed list is no
\* longer than its input, sorted by start, without two overlapping ranges
\* (each ends at or before the start of the next) and covers exactly the
\* positions that the input covers; an empty input gives an empty output.
C27_CollapseIsDisjointCover ==
    Len(collapsed) >= 1 =>
        LET out == collapsed[1]
        IN  /\ Len(out) <= Len(range_input)
            /\ SortedByStart(out)
            /\ \A i \in 1..(Len(out) - 1) : out[i].end <= out[i + 1].start
            /\ Covered(out) = Covered(range_input)
            /\ range_input = <<>> => out = <<>>

----------------------------------------------------------------------------
(* Claims about a document id that is used twice, checked under            *)
(* SpecBuilder.                                                            *)

\* the k-th document came under an id that an earlier document had
Overwrites(k) == \E j \in 1..(k - 1) : corpus[j].id = corpus[k].id

\* the ids of the sentences of the k-th document
SentenceIdsOf(k) == {SentenceId(corpus[k].id, i - 1) : i \in 1..Len(SentencesOf(k))}

\* C24: when add_document is called twice with the same document id, the
\* later call overwrites the earlier one: in the built database get_doc(id)
\* and doc_meta[id] are those of the later call, and the stored sentences
\* and the posting-list entries of that id are exactly those derived from
\* the later text, with nothing left over from the earlier text.
C24_LaterCallOverwrites ==
    database.st = "Built" =>
        \A k \in {j \in 1..Len(corpus) : LastOfId(j) /\ Overwrites(j)} :
            LET id    == corpus[k].id
                later == SentencesOf(k)
            IN  /\ id \in DOMAIN database.documents /\ database.documents[id] = corpus[k].data
                /\ database.doc_meta[id] = corpus[k].metadata
                /\ {s \in DOMAIN database.sentences : s[1] = id} = SentenceIdsOf(k)
                /\ \A i \in 1..Len(later) :
                       database.sentences[SentenceId(id, i - 1)] = later[i]
                /\ \A t \in DOMAIN database.index :
                       {s \in Range(database.index[t]) : s[1] = id}
                           = {SentenceId(id, i - 1) : i \in {n \in 1..Len(later) : t \in Range(later[n].terms)}}

----------------------------------------------------------------------------
(* Claims about retain, checked under SpecRetain.                          *)

\* the entries of a list that are valid and kept, in the order of the list
RECURSIVE Kept(_, _)
Kept(ids, keep) ==
    IF ids = <<>> THEN <<>>
    ELSE IF is_valid(Head(ids)) /\ Head(ids) \in keep THEN <<Head(ids)>> \o Kept(Tail(ids), keep)
    ELSE Kept(Tail(ids), keep)

\* a slot that was visited holds what the claim says, any other slot what
\* it held before the call
SlotsAsClaimed ==
    /\ Len(id_list.ids) = Len(id_list.before)
    /\ \A i \in DOMAIN id_list.before :
           LET old == id_list.before[i]
               new == id_list.ids[i]
           IN  IF id_list.st = "List" \/ i \in id_list.todo THEN new = old /\ i \notin id_list.asked
               ELSE /\ (is_valid(old) /\ old \notin id_list.keep) => new = ZERO
                    /\ (is_valid(old) /\ old \in id_list.keep) => new = old
                    /\ ~is_valid(old) => new = ZERO
                    /\ i \in id_list.asked <=> is_valid(old)

\* C25: SentenceIdList::retain(keep) leaves the list length and every
\* position unchanged: each valid entry for which keep is false becomes the
\* tombstone, each valid entry for which keep is true is unchanged,
\* tombstones stay tombstones without keep being evaluated on them, and
\* iterating the list afterwards yields exactly the non-tombstone entries in
\* their original order, whatever the order in which the slots were visited.
C25_RetainTombstonesInPlace ==
    id_list.st # "None" =>
        /\ SlotsAsClaimed
        /\ id_list.st = "Iterated" =>
               /\ id_list.iterated = Kept(id_list.before, id_list.keep)
               /\ id_list.iterated = SelectSeq(id_list.ids, is_valid)

\* a list of a kept id, a tombstone and a rejected id, iterated after the
\* call
C25_Witness ==
    /\ id_list.st = "Iterated"
    /\ Len(id_list.before) = 3
    /\ is_valid(id_list.before[1]) /\ id_list.before[1] \in id_list.keep
    /\ id_list.before[2] = ZERO
    /\ is_valid(id_list.before[3]) /\ id_list.before[3] \notin id_list.keep
    /\ id_list.ids = <<id_list.before[1], ZERO, ZERO>>
    /\ id_list.iterated = <<id_list.before[1]>>

----------------------------------------------------------------------------
(* Claims about the document filter of a KeywordsQuery, checked under      *)
(* SpecCombine.                                                            *)

\* what merge_slices leaves of the posting lists of the two keywords of q
MergedPostings(q) ==
    merge_slices(Posting(database, q.keywords[1]), Posting(database, q.keywords[2]))

\* C26: KeywordsQuery.find_sentence_ids applies the document filter only
\* when the filter is non-trivial and the caller is not an intersection;
\* called with caller = Intersection it returns the merged posting lists
\* without filtering by document.
C26_NoDocumentFilterUnderIntersection ==
    IdsFound("Intersecting") =>
        LET q == results["ids"].query
        IN  \A k \in 1..Len(q.queries) :
                (q.queries[k].kind = "Keywords" /\ Len(q.queries[k].keywords) = 2)
                => SubIds(q, k, "Intersection") \in MergedPostings(q.queries[k])

----------------------------------------------------------------------------
(* Claims about the rendering of results, checked under SpecHighlights.    *)

\* the texts of the parts, one after the other
RECURSIVE ConcatParts(_)
ConcatParts(parts) ==
    IF parts = <<>> THEN <<>> ELSE Head(parts).text \o ConcatParts(Tail(parts))

IsHighlight(p) == p.part = "Highlight"

\* C28: for every search result, the parts returned by
\* SearchResult::highlights() concatenated in order reproduce the sentence
\* text exactly, with the Highlight parts being the texts of the ranges in
\* highlighted_parts, a KeywordsQuery whose two keywords are the same term
\* included.
C28_PartsReproduceTheText ==
    "rendered" \in DOMAIN results =>
        \A k \in 1..Len(results["rendered"]) :
            LET r     == results["highlighted"].yielded[k]
                text  == database.sentences[r.id].text
                parts == results["rendered"][k]
            IN  /\ ConcatParts(parts) = text
                /\ SelectSeq(parts, IsHighlight)
                       = [i \in 1..Len(r.highlighted_parts) |->
                             Highlight(Slice(text, r.highlighted_parts[i].start,
                                             r.highlighted_parts[i].end))]

----------------------------------------------------------------------------
(* Claims about a failed update, checked under SpecUpdate.                 *)

\* after the error the handle is the one that was active when the update
\* began, and every version in use still has its directory
FailedUpdateLeavesHandle ==
    update.pc = "failed" =>
        /\ handle = update.active
        /\ handle \in tempdirs
        /\ \A r \in Readers : held[r] # NoVersion => held[r] \in tempdirs

\* the step in which a statement fails changes neither the handle nor what
\* a reader holds, and removes no directory but the one of the failed build
FailureSparesReaders ==
    (update.pc # "failed" /\ update'.pc = "failed") =>
        /\ handle' = handle
        /\ held' = held
        /\ tempdirs \ tempdirs' \subseteq {update.building}

\* the error is reported, and the loop waits for its next tick
ReportedThenNextTick ==
    /\ (update.pc = "failed" /\ update' # update) =>
           /\ update'.pc = "idle"
           /\ update'.reported = update.reported + 1
    /\ (update.pc = "idle" /\ update' # update) => update'.pc = Stages[1]

\* C30: if update_database fails at any step (download, archive read, JSON
\* parse, directory creation or build I/O error), the shared handle still
\* points to the previously active database, readers are unaffected, and
\* update_database_periodically reports the error and continues with the
\* next tick.
C30_FailedUpdateKeepsDatabase ==
    []FailedUpdateLeavesHandle /\ [][FailureSparesReaders /\ ReportedThenNextTick]_vars

\* a build that failed after an update that succeeded: the handle is still
\* version 2, which a reader holds, the directory of version 3 is gone and
\* the error was reported once before
C30_Witness ==
    /\ update.pc = "failed" /\ update.version = 3 /\ update.reported = 1
    /\ handle = 2 /\ held["r1"] = 2 /\ held["r2"] = 1
    /\ tempdirs = {1, 2}

----------------------------------------------------------------------------
(* Claims about the parallel merge, checked under SpecParMerge.            *)

\* C29: in the parallel merge the two recursive calls started for one pivot
\* write to disjoint regions of the output buffer, so under every
\* interleaving of the parallel tasks each output index 0..|a|+|b| is
\* written exactly once, no index is written by two tasks, and the final
\* buffer does not depend on the schedule.
C29_DisjointWrites ==
    merged # None =>
        /\ \A i \in DOMAIN writes : Len(writes[i]) <= 1
        /\ \A t \in tasks :
               /\ Region(t) \subseteq DOMAIN writes
               /\ \A i \in Region(t) : writes[i] = <<>>
               /\ \A u \in tasks \ {t} : Region(t) \cap Region(u) = {}
        /\ tasks = {} =>
               /\ \A i \in DOMAIN writes : Len(writes[i]) = 1
               /\ merged = scalar_merge(a, b)

\* the merge is done: the first call wrote its pivot and each of its two
\* halves wrote a slot of its own
C29_Witness ==
    /\ merged # None /\ tasks = {}
    /\ \E i, j, k \in DOMAIN writes :
           /\ writes[i] = << <<>> >>
           /\ writes[j] = << <<"l">> >>
           /\ writes[k] = << <<"r">> >>

====
